---- MODULE Spec2Model ----
(***************************************************************************)
(* A model of the OSC reader of go-vmcparser (package osc).                *)
(*                                                                         *)
(* A datagram (input) is handed to ReadPacket.  The call tree ReadPacket   *)
(* -> readMessage / readBundle -> ReadPacket ... is run as a step machine: *)
(* buf is the view the running function holds, stack holds one frame per   *)
(* readBundle call that is waiting for an element, msg holds the locals of *)
(* the running readMessage, call records the last primitive reader call    *)
(* (its argument view and what it returned) and ret is what the outermost  *)
(* ReadPacket returned.  A Go run-time panic (slice bounds out of range)   *)
(* ends the run in pc = "panic" with nothing returned.                     *)
(*                                                                         *)
(* Spec runs ReadPacket alone.  ReadSpec adds its callers: Packet.Iterate  *)
(* with a handler, and the loop of UDPServer.Read around both.  VmcSpec    *)
(* runs vmc.ParseMessage on the bytes of one message.                      *)
(*                                                                         *)
(* Bytes are the integers 0..255.  A view ([]byte) is the sequence of its  *)
(* bytes; a nil slice / nil pointer is Nil.                                *)
(***************************************************************************)
EXTENDS Integers, Sequences, FiniteSets, TLC

VARIABLES input, buf, pc, stack, msg, call, ret,
          iter, handled, itret, srv, addressFilters, parsed

\* The state of the callers of ReadPacket: Packet.Iterate and its handler
\* (iter, handled, itret), UDPServer.Read (srv), and vmc.ParseMessage
\* (addressFilters, parsed).
env == <<iter, handled, itret, srv, addressFilters, parsed>>

vars == <<input, buf, pc, stack, msg, call, ret, iter, handled, itret, srv, addressFilters, parsed>>

Nil == [nil |-> TRUE]

(***************************************************************************)
(* Errors.  A sentinel error is named by its Go variable; wrap lists the   *)
(* messages fmt.Errorf("...: %w") put around it, outermost first.          *)
(***************************************************************************)
NoErr == [kind |-> "nil", wrap |-> <<>>]

Err(k) == [kind |-> k, wrap |-> <<>>]

UnknownTypeTagError(tag) == [kind |-> "UnknownTypeTagError", Tag |-> tag, wrap |-> <<>>]

Wrap(m, e) == [e EXCEPT !.wrap = <<m>> \o @]

\* errors.Is(e, k) for the sentinel errors.
Is(e, k) == e.kind = k

(***************************************************************************)
(* What a reader hands back: (value, remaining view, error), or a panic.   *)
(***************************************************************************)
Ret(v, r, e) == [val |-> v, rest |-> r, err |-> e, panic |-> FALSE]

Panic == [val |-> Nil, rest |-> Nil, err |-> NoErr, panic |-> TRUE]

\* buf[lo:] ; the caller has checked lo <= len(buf).
From(b, lo) == SubSeq(b, lo + 1, Len(b))

\* buf[:hi]
Upto(b, hi) == SubSeq(b, 1, hi)

(***************************************************************************)
(* Fixed lengths of the OSC types.                                         *)
(***************************************************************************)
lenInt == 4
lenFloat == 4
lenInt64 == 8
lenTimeTag == 8
lenDouble == 8
lenChar == 4
lenRgba == 4
lenMidi == 4
padSize == 4

LittleEndianInt32(b) ==
    (IF b[4] >= 128 THEN b[4] - 256 ELSE b[4]) * 16777216
        + b[3] * 65536 + b[2] * 256 + b[1]

(***************************************************************************)
(* binary.BigEndian.Uint32 followed by the conversion to int32 (two's      *)
(* complement): the sign comes from the top bit of the first byte.         *)
(***************************************************************************)
BigEndianInt32(b) ==
    (IF b[1] >= 128 THEN b[1] - 256 ELSE b[1]) * 16777216
        + b[2] * 65536 + b[3] * 256 + b[4]

(***************************************************************************)
(* binary.BigEndian.Uint64 followed by the conversion to int64.  The value *)
(* is hi * 2^32 + lo with hi the signed upper and lo the unsigned lower    *)
(* half; lo is kept as its two 16-bit limbs so that every part fits the    *)
(* model checker's integers.                                               *)
(***************************************************************************)
BigEndianInt64(b) ==
    [hi |-> BigEndianInt32(Upto(b, 4)),
     lo |-> <<b[5] * 256 + b[6], b[7] * 256 + b[8]>>]

\* math.Float32frombits / math.Float64frombits: the value is its bit pattern.
Float32frombits(bits) == [float32bits |-> bits]

Float64frombits(bits) == [float64bits |-> bits]

readInt(b) ==
    IF Len(b) < lenInt THEN Ret(0, Nil, Err("ErrIntTooShort"))
    ELSE Ret(BigEndianInt32(Upto(b, lenInt)), From(b, lenInt), NoErr)

readFloat(b) ==
    IF Len(b) < lenFloat THEN Ret(0, Nil, Err("ErrFloatTooShort"))
    ELSE Ret(Float32frombits(BigEndianInt32(Upto(b, lenFloat))), From(b, lenFloat), NoErr)

padToMultiple(length) == (padSize - (length % padSize)) % padSize

pad(length) == padSize - (length % padSize)

\* bytes.IndexByte: the 0-based index of the first c in b, or -1.
IndexByte(b, c) ==
    LET S == {i \in 1..Len(b) : b[i] = c}
    IN  IF S = {} THEN -1 ELSE (CHOOSE i \in S : \A j \in S : i <= j) - 1

ReadString(b) ==
    LET pos == IndexByte(b, 0)
        value == Upto(b, pos)
        lo == Len(value) + pad(Len(value))
    IN  IF pos = -1 THEN Ret(Nil, Nil, Err("ErrStringMissingTerminator"))
        ELSE IF lo > Len(b) THEN Panic
        ELSE Ret(value, From(b, lo), NoErr)

(***************************************************************************)
(* readString is what readMessage and readBundle call; it is ReadString    *)
(* with the value converted to a Go string (the same bytes).               *)
(***************************************************************************)
readString(b) == ReadString(b)

readLength(b) ==
    LET r == readInt(b)
    IN  IF r.err # NoErr THEN Ret(0, Nil, Wrap("failed reading length", r.err))
        ELSE IF r.val < 0 THEN Ret(0, Nil, Err("ErrNegativeLength"))
        ELSE Ret(r.val, r.rest, NoErr)

readBlob(b) ==
    LET r == readLength(b)
        length == r.val
        nb == r.rest
    IN  IF r.err # NoErr THEN Ret(Nil, Nil, Wrap("failed reading blob length", r.err))
        ELSE IF Len(nb) < length THEN Ret(Nil, Nil, Err("ErrBlobTooShort"))
        ELSE IF length + pad(length) > Len(nb) THEN Panic
        ELSE Ret(Upto(nb, length), From(nb, length + pad(length)), NoErr)

readInt64(b) ==
    IF Len(b) < lenInt64 THEN Ret(0, Nil, Err("ErrInt64TooShort"))
    ELSE Ret(BigEndianInt64(Upto(b, lenInt64)), From(b, lenInt64), NoErr)

readTimeTag(b) ==
    IF Len(b) < lenTimeTag THEN Ret(0, Nil, Err("ErrTimeTagTooShort"))
    ELSE Ret(BigEndianInt64(Upto(b, lenTimeTag)), From(b, lenTimeTag), NoErr)

readDouble(b) ==
    IF Len(b) < lenDouble THEN Ret(0, Nil, Err("ErrDoubleTooShort"))
    ELSE Ret(Float64frombits(BigEndianInt64(Upto(b, lenDouble))), From(b, lenDouble), NoErr)

readChar(b) ==
    IF Len(b) < lenChar THEN Ret(0, Nil, Err("ErrCharTooShort"))
    ELSE Ret(BigEndianInt32(Upto(b, lenChar)), From(b, lenChar), NoErr)

readRgba(b) ==
    IF Len(b) < lenRgba THEN Ret(<<0, 0, 0, 0>>, Nil, Err("ErrRgbaTooShort"))
    ELSE Ret(<<b[1], b[2], b[3], b[4]>>, From(b, lenRgba), NoErr)

readMidi(b) ==
    IF Len(b) < lenMidi THEN Ret(<<0, 0, 0, 0>>, Nil, Err("ErrMidiTooShort"))
    ELSE Ret(<<b[1], b[2], b[3], b[4]>>, From(b, lenMidi), NoErr)

(***************************************************************************)
(* Type tags (osc.go, lines 34-56) and the two packet markers.             *)
(***************************************************************************)
TypeTagInt == 105
TypeTagFloat == 102
TypeTagString == 115
TypeTagBlob == 98
TypeTagInt64 == 104
TypeTagTimeTag == 116
TypeTagDouble == 100
TypeTagSymbol == 83
TypeTagChar == 99
TypeTagRgba == 114
TypeTagMidi == 109
TypeTagTrue == 84
TypeTagFalse == 70
TypeTagNil == 78
TypeTagInfinitum == 124
TypeTagArrayStart == 91
TypeTagArrayEnd == 93
MessageMarker == 47
BundleMarker == 35
TypeTagsMarker == 44

\* "#bundle"
BundleIdentifier == <<35, 98, 117, 110, 100, 108, 101>>

(***************************************************************************)
(* The rune that `range` over a string yields for the byte b.  The inputs  *)
(* hold ASCII bytes and the bytes 0x80 and 0xFF, which never start a valid *)
(* UTF-8 sequence: range yields utf8.RuneError (U+FFFD) for them and moves *)
(* on by one byte.                                                         *)
(***************************************************************************)
DecodeRune(b) == IF b < 128 THEN b ELSE 65533

\* A value held in an interface{}: its dynamic type and the value.
GoValue(t, v) == [type |-> t, v |-> v]

(***************************************************************************)
(* One case of the switch in readMessage's loop: the reader called for the *)
(* tag ("" when the case calls none), and what the case leaves in          *)
(* (arguments[idx], buf, err).                                             *)
(***************************************************************************)
ArgumentReader(tag) ==
    CASE tag = TypeTagInt -> "readInt"
      [] tag = TypeTagFloat -> "readFloat"
      [] tag \in {TypeTagString, TypeTagSymbol} -> "readString"
      [] tag = TypeTagBlob -> "readBlob"
      [] tag = TypeTagInt64 -> "readInt64"
      [] tag = TypeTagTimeTag -> "readTimeTag"
      [] tag = TypeTagDouble -> "readDouble"
      [] tag = TypeTagChar -> "readChar"
      [] tag = TypeTagRgba -> "readRgba"
      [] tag = TypeTagMidi -> "readMidi"
      [] OTHER -> ""

\* The reader of that name, applied to the view b.
Reader(fn, b) ==
    CASE fn = "readInt" -> readInt(b)
      [] fn = "readFloat" -> readFloat(b)
      [] fn = "readString" -> readString(b)
      [] fn = "readBlob" -> readBlob(b)
      [] fn = "readInt64" -> readInt64(b)
      [] fn = "readTimeTag" -> readTimeTag(b)
      [] fn = "readDouble" -> readDouble(b)
      [] fn = "readChar" -> readChar(b)
      [] fn = "readRgba" -> readRgba(b)
      [] fn = "readMidi" -> readMidi(b)

Typed(t, r) == IF r.panic \/ r.err # NoErr THEN r ELSE [r EXCEPT !.val = GoValue(t, @)]

ReadArgumentSkippingArrays(tag, b) ==
    CASE tag = TypeTagInt -> Typed("int32", readInt(b))
      [] tag = TypeTagFloat -> Typed("float32", readFloat(b))
      [] tag \in {TypeTagString, TypeTagSymbol} -> Typed("string", readString(b))
      [] tag = TypeTagBlob -> Typed("[]byte", readBlob(b))
      [] tag = TypeTagInt64 -> Typed("int64", readInt64(b))
      [] tag = TypeTagTimeTag -> Typed("int64", readTimeTag(b))
      [] tag = TypeTagDouble -> Typed("float64", readDouble(b))
      [] tag = TypeTagChar -> Typed("int32", readChar(b))
      [] tag = TypeTagRgba -> Typed("[4]byte", readRgba(b))
      [] tag = TypeTagMidi -> Typed("[4]byte", readMidi(b))
      [] tag = TypeTagTrue -> Ret(GoValue("bool", TRUE), b, NoErr)
      [] tag = TypeTagFalse -> Ret(GoValue("bool", FALSE), b, NoErr)
      [] tag \in {TypeTagNil, TypeTagInfinitum, TypeTagArrayStart, TypeTagArrayEnd} ->
            Ret(Nil, b, NoErr)
      [] OTHER -> Ret(Nil, Nil, UnknownTypeTagError(tag))

ReadArgument(tag, b) ==
    CASE tag = TypeTagInt -> Typed("int32", readInt(b))
      [] tag = TypeTagFloat -> Typed("float32", readFloat(b))
      [] tag \in {TypeTagString, TypeTagSymbol} -> Typed("string", readString(b))
      [] tag = TypeTagBlob -> Typed("[]byte", readBlob(b))
      [] tag = TypeTagInt64 -> Typed("int64", readInt64(b))
      [] tag = TypeTagTimeTag -> Typed("int64", readTimeTag(b))
      [] tag = TypeTagDouble -> Typed("float64", readDouble(b))
      [] tag = TypeTagChar -> Typed("int32", readChar(b))
      [] tag = TypeTagRgba -> Typed("[4]byte", readRgba(b))
      [] tag = TypeTagMidi -> Typed("[4]byte", readMidi(b))
      [] tag = TypeTagTrue -> Ret(GoValue("bool", TRUE), b, NoErr)
      [] tag = TypeTagFalse -> Ret(GoValue("bool", FALSE), b, NoErr)
      [] tag \in {TypeTagNil, TypeTagInfinitum} -> Ret(Nil, b, NoErr)
      [] tag \in {TypeTagArrayStart, TypeTagArrayEnd} -> Ret(Nil, Nil, Err("ErrArraysNotSupported"))
      [] OTHER -> Ret(Nil, Nil, UnknownTypeTagError(tag))

(***************************************************************************)
(* The step machine.                                                       *)
(***************************************************************************)
NoMsg == [raw |-> <<>>, address |-> <<>>, typeTags |-> <<>>, arguments |-> <<>>, idx |-> 0]

NoCall == [fn |-> "", arg |-> <<>>, res |-> Ret(Nil, Nil, NoErr)]

NoRet == [packet |-> Nil, rest |-> Nil, err |-> NoErr]

Called(fn, b, r) == [fn |-> fn, arg |-> b, res |-> r]

Packet(m, b) == [Message |-> m, Bundle |-> b]

\* A failure that hands back an empty packet beside the error.
FailWithPacket(e) ==
    /\ pc' = "done"
    /\ ret' = [packet |-> Packet(Nil, Nil), rest |-> Nil, err |-> e]
    /\ stack' = <<>>
    /\ msg' = NoMsg
    /\ UNCHANGED buf

\* Every function on the call stack returns (nil, nil, err).
Fail(e) ==
    /\ pc' = "done"
    /\ ret' = [packet |-> Nil, rest |-> Nil, err |-> e]
    /\ stack' = <<>>
    /\ msg' = NoMsg
    /\ UNCHANGED buf

\* A slice expression out of range: the goroutine panics, nothing returns.
Panicked ==
    /\ pc' = "panic"
    /\ stack' = <<>>
    /\ msg' = NoMsg
    /\ UNCHANGED <<buf, ret>>

(***************************************************************************)
(* ReadPacket returns (packet, newBuf, nil) to its caller: to the user     *)
(* when no readBundle is waiting (stk is empty), else to the loop of the   *)
(* innermost readBundle, which takes newBuf as its view and appends the    *)
(* packet to its contents.                                                 *)
(***************************************************************************)
Return(stk, packet, newBuf) ==
    /\ buf' = newBuf
    /\ msg' = NoMsg
    /\ IF stk = <<>>
       THEN /\ pc' = "done"
            /\ ret' = [packet |-> packet, rest |-> newBuf, err |-> NoErr]
            /\ stack' = stk
       ELSE /\ pc' = "readBundleLoop"
            /\ stack' = [stk EXCEPT ![Len(stk)].contents = Append(@, packet)]
            /\ UNCHANGED ret

ReadPacketNoDefault ==
    /\ pc = "ReadPacket"
    /\ UNCHANGED <<input, call, env>>
    /\ IF Len(buf) = 0 THEN Fail(Err("ErrInputEmpty"))
       ELSE IF buf[1] = BundleMarker
       THEN pc' = "readBundle" /\ UNCHANGED <<buf, stack, msg, ret>>
       ELSE pc' = "readMessage" /\ UNCHANGED <<buf, stack, msg, ret>>

ReadPacket ==
    /\ pc = "ReadPacket"
    /\ UNCHANGED <<input, call, env>>
    /\ IF Len(buf) = 0 THEN Fail(Err("ErrInputEmpty"))
       ELSE IF buf[1] = MessageMarker
       THEN pc' = "readMessage" /\ UNCHANGED <<buf, stack, msg, ret>>
       ELSE IF buf[1] = BundleMarker
       THEN pc' = "readBundle" /\ UNCHANGED <<buf, stack, msg, ret>>
       ELSE Fail(Err("ErrInvalidPacket"))

readMessageAddressAnyNext ==
    /\ pc = "readMessage"
    /\ UNCHANGED <<input, env>>
    /\ LET r == readString(buf)
       IN  /\ call' = Called("readString", buf, r)
           /\ IF r.panic THEN Panicked
              ELSE IF r.err # NoErr THEN Fail(Wrap("failed reading address", r.err))
              ELSE IF Len(r.rest) = 0
              THEN Fail(Err("ErrTypeTagsStartMissing"))
              ELSE /\ pc' = "readMessageTypeTags"
                   /\ buf' = r.rest
                   /\ msg' = [NoMsg EXCEPT !.raw = buf, !.address = r.val]
                   /\ UNCHANGED <<stack, ret>>

\* readMessage, lines 204-214: raw, the address and the type-tag marker.
readMessageAddress ==
    /\ pc = "readMessage"
    /\ UNCHANGED <<input, env>>
    /\ LET r == readString(buf)
       IN  /\ call' = Called("readString", buf, r)
           /\ IF r.panic THEN Panicked
              ELSE IF r.err # NoErr THEN Fail(Wrap("failed reading address", r.err))
              ELSE IF Len(r.rest) = 0 \/ r.rest[1] # TypeTagsMarker
              THEN Fail(Err("ErrTypeTagsStartMissing"))
              ELSE /\ pc' = "readMessageTypeTags"
                   /\ buf' = r.rest
                   /\ msg' = [NoMsg EXCEPT !.raw = buf, !.address = r.val]
                   /\ UNCHANGED <<stack, ret>>

readMessageTypeTagsKeepingMarker ==
    /\ pc = "readMessageTypeTags"
    /\ UNCHANGED <<input, env>>
    /\ LET r == readString(buf)
       IN  /\ call' = Called("readString", buf, r)
           /\ IF r.panic THEN Panicked
              ELSE IF r.err # NoErr THEN Fail(Wrap("failed reading type tags", r.err))
              ELSE /\ pc' = "readMessageArguments"
                   /\ buf' = r.rest
                   /\ msg' = [msg EXCEPT !.typeTags = r.val,
                                         !.arguments = [i \in 1..Len(r.val) |-> Nil],
                                         !.idx = 0]
                   /\ UNCHANGED <<stack, ret>>

\* readMessage, lines 216-222: the type tags and the arguments slice.
readMessageTypeTags ==
    /\ pc = "readMessageTypeTags"
    /\ UNCHANGED <<input, env>>
    /\ LET r == readString(buf)
       IN  /\ call' = Called("readString", buf, r)
           /\ IF r.panic THEN Panicked
              ELSE IF r.err # NoErr THEN Fail(Wrap("failed reading type tags", r.err))
              ELSE /\ pc' = "readMessageArguments"
                   /\ buf' = r.rest
                   /\ msg' = [msg EXCEPT !.typeTags = r.val,
                                         !.arguments = [i \in 1..(Len(r.val) - 1) |-> Nil],
                                         !.idx = 0]
                   /\ UNCHANGED <<stack, ret>>

\* readMessage, lines 224-307: one iteration of the loop over typeTags[1:].
readMessageArgument ==
    /\ pc = "readMessageArguments"
    /\ msg.idx < Len(msg.typeTags) - 1
    /\ UNCHANGED <<input, env>>
    /\ LET tag == DecodeRune(msg.typeTags[msg.idx + 2])
           r == ReadArgument(tag, buf)
       IN  /\ call' = IF ArgumentReader(tag) = "" THEN call
                      ELSE Called(ArgumentReader(tag), buf, Reader(ArgumentReader(tag), buf))
           /\ IF r.panic THEN Panicked
              ELSE IF r.err # NoErr THEN Fail(r.err)
              ELSE /\ buf' = r.rest
                   /\ msg' = [msg EXCEPT !.arguments[msg.idx + 1] = r.val,
                                         !.idx = msg.idx + 1]
                   /\ UNCHANGED <<pc, stack, ret>>

\* readMessage, lines 309-314, and ReadPacket, lines 136-139.
readMessageReturn ==
    /\ pc = "readMessageArguments"
    /\ msg.idx = Len(msg.typeTags) - 1
    /\ UNCHANGED <<input, call, env>>
    /\ Return(stack,
              Packet([Address |-> msg.address,
                      TypeTags |-> From(msg.typeTags, 1),
                      Arguments |-> msg.arguments,
                      Raw |-> msg.raw], Nil),
              buf)

readMessage ==
    \/ readMessageAddress
    \/ readMessageTypeTags
    \/ readMessageArgument
    \/ readMessageReturn

readBundleIdentifierByMarker ==
    /\ pc = "readBundle"
    /\ UNCHANGED <<input, env>>
    /\ LET r == readString(buf)
       IN  /\ call' = Called("readString", buf, r)
           /\ IF r.panic THEN Panicked
              ELSE IF r.err # NoErr THEN Fail(r.err)
              ELSE IF r.val = <<>> \/ r.val[1] # BundleMarker
              THEN Fail(Err("ErrInvalidBundleIdentifier"))
              ELSE /\ pc' = "readBundleTimeTag"
                   /\ buf' = r.rest
                   /\ UNCHANGED <<stack, msg, ret>>

\* readBundle, lines 334-342: the identifier.
readBundleIdentifier ==
    /\ pc = "readBundle"
    /\ UNCHANGED <<input, env>>
    /\ LET r == readString(buf)
       IN  /\ call' = Called("readString", buf, r)
           /\ IF r.panic THEN Panicked
              ELSE IF r.err # NoErr THEN Fail(r.err)
              ELSE IF r.val # BundleIdentifier THEN Fail(Err("ErrInvalidBundleIdentifier"))
              ELSE /\ pc' = "readBundleTimeTag"
                   /\ buf' = r.rest
                   /\ UNCHANGED <<stack, msg, ret>>

\* readBundle, lines 344-350: the time tag and the empty contents.
readBundleTimeTag ==
    /\ pc = "readBundleTimeTag"
    /\ UNCHANGED <<input, env>>
    /\ LET r == readTimeTag(buf)
       IN  /\ call' = Called("readTimeTag", buf, r)
           /\ IF r.err # NoErr THEN Fail(r.err)
              ELSE /\ pc' = "readBundleLoop"
                   /\ buf' = r.rest
                   /\ stack' = Append(stack, [timeTag |-> r.val, contents |-> <<>>])
                   /\ UNCHANGED <<msg, ret>>

readBundleElementOffByOne ==
    /\ pc = "readBundleLoop"
    /\ Len(buf) > 4
    /\ UNCHANGED <<input, env>>
    /\ LET r == readLength(buf)
       IN  /\ call' = Called("readLength", buf, r)
           /\ IF r.err # NoErr THEN Fail(r.err)
              ELSE IF Len(r.rest) <= r.val THEN Fail(Err("ErrElementTooShort"))
              ELSE /\ pc' = "ReadPacket"
                   /\ buf' = r.rest
                   /\ UNCHANGED <<stack, msg, ret>>

\* readBundleElement calling ReadPacket on the view that still holds the length.
readBundleElementPeeking ==
    /\ pc = "readBundleLoop"
    /\ Len(buf) > 4
    /\ UNCHANGED <<input, env>>
    /\ LET r == readLength(buf)
       IN  /\ call' = Called("readLength", buf, r)
           /\ IF r.err # NoErr THEN Fail(r.err)
              ELSE IF Len(r.rest) < r.val THEN Fail(Err("ErrElementTooShort"))
              ELSE /\ pc' = "ReadPacket"
                   /\ UNCHANGED <<buf, stack, msg, ret>>

\* readBundle, lines 352-363: an element's length, then the call of ReadPacket.
readBundleElement ==
    /\ pc = "readBundleLoop"
    /\ Len(buf) > 4
    /\ UNCHANGED <<input, env>>
    /\ LET r == readLength(buf)
       IN  /\ call' = Called("readLength", buf, r)
           /\ IF r.err # NoErr THEN Fail(r.err)
              ELSE IF Len(r.rest) < r.val THEN Fail(Err("ErrElementTooShort"))
              ELSE /\ pc' = "ReadPacket"
                   /\ buf' = r.rest
                   /\ UNCHANGED <<stack, msg, ret>>

\* readBundle, lines 372-375, and ReadPacket, lines 146-149.
readBundleReturn ==
    /\ pc = "readBundleLoop"
    /\ Len(buf) <= 4
    /\ UNCHANGED <<input, call, env>>
    /\ LET top == stack[Len(stack)]
       IN  Return(Upto(stack, Len(stack) - 1),
                  Packet(Nil, [TimeTag |-> top.timeTag, Contents |-> top.contents]),
                  buf)

readBundle ==
    \/ readBundleIdentifier
    \/ readBundleTimeTag
    \/ readBundleElement
    \/ readBundleReturn

(***************************************************************************)
(* The VMC addresses (marionette.go, lines 8-35), as their bytes.          *)
(***************************************************************************)
\* "/VMC/Ext/OK"
AddressAvailable == <<47, 86, 77, 67, 47, 69, 120, 116, 47, 79, 75>>

\* "/VMC/Ext/T"
AddressRelativeTime == <<47, 86, 77, 67, 47, 69, 120, 116, 47, 84>>

\* "/VMC/Ext/Root/Pos"
AddressRootTransform ==
    <<47, 86, 77, 67, 47, 69, 120, 116, 47, 82, 111, 111, 116, 47, 80, 111, 115>>

\* "/VMC/Ext/Bone/Pos"
AddressBoneTransform ==
    <<47, 86, 77, 67, 47, 69, 120, 116, 47, 66, 111, 110, 101, 47, 80, 111, 115>>

\* "/VMC/Ext/Blend/Val"
AddressBlendShapeProxyValue ==
    <<47, 86, 77, 67, 47, 69, 120, 116, 47, 66, 108, 101, 110, 100, 47, 86, 97,
    108>>

\* "/VMC/Ext/Blend/Apply"
AddressBlendShapeProxyApply ==
    <<47, 86, 77, 67, 47, 69, 120, 116, 47, 66, 108, 101, 110, 100, 47, 65, 112,
    112, 108, 121>>

\* "/VMC/Ext/Cam"
AddressCameraTransform == <<47, 86, 77, 67, 47, 69, 120, 116, 47, 67, 97, 109>>

\* "/VMC/Ext/Con"
AddressControllerInput == <<47, 86, 77, 67, 47, 69, 120, 116, 47, 67, 111, 110>>

\* "/VMC/Ext/Key"
AddressKeyboardInput == <<47, 86, 77, 67, 47, 69, 120, 116, 47, 75, 101, 121>>

\* "/VMC/Ext/Midi/Note"
AddressMidiNoteInput ==
    <<47, 86, 77, 67, 47, 69, 120, 116, 47, 77, 105, 100, 105, 47, 78, 111, 116,
    101>>

\* "/VMC/Ext/Midi/CC/Val"
AddressMidiCCValueInput ==
    <<47, 86, 77, 67, 47, 69, 120, 116, 47, 77, 105, 100, 105, 47, 67, 67, 47, 86,
    97, 108>>

\* "/VMC/Ext/Midi/CC/Bit"
AddressMidiCCButtonInput ==
    <<47, 86, 77, 67, 47, 69, 120, 116, 47, 77, 105, 100, 105, 47, 67, 67, 47, 66,
    105, 116>>

\* "/VMC/Ext/Hmd/Pos"
AddressDeviceTransformHmd ==
    <<47, 86, 77, 67, 47, 69, 120, 116, 47, 72, 109, 100, 47, 80, 111, 115>>

\* "/VMC/Ext/Con/Pos"
AddressDeviceTransformCon ==
    <<47, 86, 77, 67, 47, 69, 120, 116, 47, 67, 111, 110, 47, 80, 111, 115>>

\* "/VMC/Ext/Tra/Pos"
AddressDeviceTransformTra ==
    <<47, 86, 77, 67, 47, 69, 120, 116, 47, 84, 114, 97, 47, 80, 111, 115>>

\* "/VMC/Ext/Hmd/Pos/Local"
AddressDeviceTransformHmdLocal ==
    <<47, 86, 77, 67, 47, 69, 120, 116, 47, 72, 109, 100, 47, 80, 111, 115, 47, 76,
    111, 99, 97, 108>>

\* "/VMC/Ext/Con/Pos/Local"
AddressDeviceTransformConLocal ==
    <<47, 86, 77, 67, 47, 69, 120, 116, 47, 67, 111, 110, 47, 80, 111, 115, 47, 76,
    111, 99, 97, 108>>

\* "/VMC/Ext/Tra/Pos/Local"
AddressDeviceTransformTraLocal ==
    <<47, 86, 77, 67, 47, 69, 120, 116, 47, 84, 114, 97, 47, 80, 111, 115, 47, 76,
    111, 99, 97, 108>>

\* "/VMC/Ext/Rcv"
AddressReceiveEnable == <<47, 86, 77, 67, 47, 69, 120, 116, 47, 82, 99, 118>>

\* "/VMC/Ext/Light"
AddressDirectionalLight ==
    <<47, 86, 77, 67, 47, 69, 120, 116, 47, 76, 105, 103, 104, 116>>

\* "/VMC/Ext/VRM"
AddressLocalVrm == <<47, 86, 77, 67, 47, 69, 120, 116, 47, 86, 82, 77>>

\* "/VMC/Ext/Remote"
AddressRemoteVrm ==
    <<47, 86, 77, 67, 47, 69, 120, 116, 47, 82, 101, 109, 111, 116, 101>>

\* "/VMC/Ext/Opt"
AddressOptionString == <<47, 86, 77, 67, 47, 69, 120, 116, 47, 79, 112, 116>>

\* "/VMC/Ext/Setting/Color"
AddressBackgroundColor ==
    <<47, 86, 77, 67, 47, 69, 120, 116, 47, 83, 101, 116, 116, 105, 110, 103, 47,
    67, 111, 108, 111, 114>>

\* "/VMC/Ext/Setting/Win"
AddressWindowAttribute ==
    <<47, 86, 77, 67, 47, 69, 120, 116, 47, 83, 101, 116, 116, 105, 110, 103, 47,
    87, 105, 110>>

\* "/VMC/Ext/Config"
AddressLoadedSettingPath ==
    <<47, 86, 77, 67, 47, 69, 120, 116, 47, 67, 111, 110, 102, 105, 103>>

(***************************************************************************)
(* The decoder the switch of ParseMessage picks for an address, "" when    *)
(* the address is not in the table.                                        *)
(***************************************************************************)
Decoder(address) ==
    CASE address = AddressAvailable -> "parseAvailable"
      [] address = AddressRelativeTime -> "parseRelativeTime"
      [] address = AddressRootTransform -> "parseRootTransform"
      [] address = AddressBoneTransform -> "parseBoneTransform"
      [] address = AddressBlendShapeProxyValue -> "parseBlendShapeProxyValue"
      [] address = AddressBlendShapeProxyApply -> "parseBlendShapeProxyApply"
      [] address = AddressCameraTransform -> "parseCameraTransform"
      [] address = AddressControllerInput -> "parseControllerInput"
      [] address = AddressKeyboardInput -> "parseKeyboardInput"
      [] address = AddressMidiNoteInput -> "parseMidiNoteInput"
      [] address = AddressMidiCCValueInput -> "parseMidiCCValueInput"
      [] address = AddressMidiCCButtonInput -> "parseMidiCCButtonInput"
      [] address \in {AddressDeviceTransformHmd, AddressDeviceTransformCon,
                      AddressDeviceTransformTra, AddressDeviceTransformHmdLocal,
                      AddressDeviceTransformConLocal, AddressDeviceTransformTraLocal} ->
            "parseDeviceTransform"
      [] address = AddressReceiveEnable -> "parseReceiveEnable"
      [] address = AddressDirectionalLight -> "parseDirectionalLight"
      [] address = AddressLocalVrm -> "parseLocalVrm"
      [] address = AddressRemoteVrm -> "parseRemoteVrm"
      [] address = AddressOptionString -> "parseOptionString"
      [] address = AddressBackgroundColor -> "parseBackgroundColor"
      [] address = AddressWindowAttribute -> "parseWindowAttribute"
      [] address = AddressLoadedSettingPath -> "parseLoadedSettingPath"
      [] OTHER -> ""

\* n times the tag t.
Rep(t, n) == [k \in 1..n |-> t]

InvalidTypeTagsError(found, expected) ==
    [kind |-> "InvalidTypeTagsError", Found |-> found, Expected |-> expected, wrap |-> <<>>]

InvalidEnumValueError(name, value) ==
    [kind |-> "InvalidEnumValueError", Name |-> name, Value |-> value, wrap |-> <<>>]

\* The conversion of an int32 to a uint8 (CalibrationState(v), ...).
Uint8(v) == v % 256

\* isValid of CalibrationState, CalibrationMode and ControllerActive.
CalibrationStateCalibrated == 3
CalibrationModeMrFloorFix == 2
ControllerActiveChangeAxis == 2

(***************************************************************************)
(* The decoders of a generic osc.Message, which the handler of             *)
(* UDPServer.Read uses: the type tags each of them expects.                *)
(***************************************************************************)
MessageTypeTags(fn) ==
    CASE fn = "parseAvailable" -> Rep(TypeTagInt, 3)
      [] fn = "parseRelativeTime" -> <<TypeTagFloat>>
      [] fn = "parseRootTransform" -> <<TypeTagString>> \o Rep(TypeTagFloat, 13)
      [] fn = "parseBoneTransform" -> <<TypeTagString>> \o Rep(TypeTagFloat, 7)
      [] fn = "parseBlendShapeProxyValue" -> <<TypeTagString, TypeTagFloat>>
      [] fn = "parseBlendShapeProxyApply" -> <<>>
      [] fn = "parseCameraTransform" -> <<TypeTagString>> \o Rep(TypeTagFloat, 8)
      [] fn = "parseControllerInput" ->
            <<TypeTagInt, TypeTagString>> \o Rep(TypeTagInt, 3) \o Rep(TypeTagFloat, 3)
      [] fn = "parseKeyboardInput" -> <<TypeTagInt, TypeTagString, TypeTagInt>>
      [] fn = "parseMidiNoteInput" -> Rep(TypeTagInt, 3) \o <<TypeTagFloat>>
      [] fn = "parseMidiCCValueInput" -> <<TypeTagInt, TypeTagFloat>>
      [] fn = "parseMidiCCButtonInput" -> Rep(TypeTagInt, 2)
      [] fn = "parseDeviceTransform" -> <<TypeTagString>> \o Rep(TypeTagFloat, 7)
      [] fn = "parseReceiveEnable" -> Rep(TypeTagInt, 2)
      [] fn = "parseDirectionalLight" -> <<TypeTagString>> \o Rep(TypeTagFloat, 11)
      [] fn = "parseLocalVrm" -> Rep(TypeTagString, 2)
      [] fn = "parseRemoteVrm" -> Rep(TypeTagString, 2)
      [] fn = "parseOptionString" -> <<TypeTagString>>
      [] fn = "parseBackgroundColor" -> Rep(TypeTagFloat, 4)
      [] fn = "parseWindowAttribute" -> Rep(TypeTagInt, 4)
      [] fn = "parseLoadedSettingPath" -> <<TypeTagString>>

\* The enumerated arguments a decoder range-checks: <<index, name, last value>>.
MessageEnums(fn) ==
    CASE fn = "parseAvailable" ->
            <<<<2, "calibration state", CalibrationStateCalibrated>>,
              <<3, "calibration mode", CalibrationModeMrFloorFix>>>>
      [] fn = "parseControllerInput" ->
            <<<<1, "active (controller)", ControllerActiveChangeAxis>>>>
      [] OTHER -> <<>>

(***************************************************************************)
(* ParseMessage(msg *osc.Message), as UDPServer.Read calls it: the decoder *)
(* of the address checks the type tags, then its enumerated arguments, and *)
(* builds the record from the arguments by position.                       *)
(***************************************************************************)
ParseOscMessage(m) ==
    LET fn == Decoder(m.Address)
        enums == IF fn = "" THEN <<>> ELSE MessageEnums(fn)
        bad == {k \in 1..Len(enums) :
                  Uint8(m.Arguments[enums[k][1]].v) > enums[k][3]}
        first == CHOOSE k \in bad : \A j \in bad : k <= j
    IN  IF fn = "" THEN [message |-> Nil, err |-> Err("ErrUnknownAddress")]
        ELSE IF m.TypeTags # MessageTypeTags(fn)
        THEN [message |-> Nil,
              err |-> InvalidTypeTagsError(m.TypeTags, MessageTypeTags(fn))]
        ELSE IF bad # {}
        THEN [message |-> Nil,
              err |-> InvalidEnumValueError(enums[first][2],
                                            m.Arguments[enums[first][1]].v)]
        ELSE [message |-> [decoder |-> fn, Address |-> m.Address,
                           Arguments |-> m.Arguments],
              err |-> NoErr]

(***************************************************************************)
(* Packet.ToMessages (osc.go, lines 99-120).                               *)
(***************************************************************************)
\* Only the messages that are contents of the bundle itself.
ToMessagesOfTopLevel(p) ==
    IF p.Message # Nil THEN <<p.Message>>
    ELSE IF p.Bundle # Nil
    THEN LET own == {i \in 1..Len(p.Bundle.Contents) : p.Bundle.Contents[i].Message # Nil}
             nth[k \in 0..Cardinality(own)] ==
                 IF k = 0 THEN 0
                 ELSE CHOOSE i \in own : i > nth[k - 1] /\ \A j \in own : j > nth[k - 1] => i <= j
         IN  [k \in 1..Cardinality(own) |-> p.Bundle.Contents[nth[k]].Message]
    ELSE <<>>

RECURSIVE ToMessages(_), AppendMessages(_, _, _)
ToMessages(p) ==
    IF p.Message # Nil THEN <<p.Message>>
    ELSE IF p.Bundle # Nil THEN AppendMessages(<<>>, p.Bundle.Contents, 1)
    ELSE <<>>

\* The loop of lines 112-114, from the i-th packet of the contents on.
AppendMessages(messages, contents, i) ==
    IF i > Len(contents) THEN messages
    ELSE AppendMessages(messages \o ToMessages(contents[i]), contents, i + 1)

(***************************************************************************)
(* Packet.Iterate (osc.go, lines 81-97), one frame of iter per running     *)
(* call: the packet and how many of its bundle's contents the loop has     *)
(* passed.  handled lists the calls of the handler made by the running     *)
(* outermost Iterate, each with what the handler returned.                 *)
(***************************************************************************)
Frame(p) == [p |-> p, i |-> 0]

\* What a handler written by a user may return.
HandlerErrors == {NoErr, Err("handler failed")}

IterateReturnToLoop(e) ==
    IF Len(iter) = 1
    THEN iter' = <<>> /\ itret' = e /\ pc' = "IterateReturned"
    ELSE iter' = Upto(iter, Len(iter) - 1) /\ UNCHANGED <<itret, pc>>

(***************************************************************************)
(* The innermost Iterate returns e.  A loop that gets an error returns it  *)
(* at once, so an error ends every running Iterate; nil goes back to the   *)
(* loop of the caller.                                                     *)
(***************************************************************************)
IterateReturn(e) ==
    IF e # NoErr \/ Len(iter) = 1
    THEN iter' = <<>> /\ itret' = e /\ pc' = "IterateReturned"
    ELSE iter' = Upto(iter, Len(iter) - 1) /\ UNCHANGED <<itret, pc>>

\* The handler of a user of Iterate: it returns nil or an error of its own.
UserHandler(m, e) == e \in HandlerErrors /\ UNCHANGED srv

(***************************************************************************)
(* The handler UDPServer.Read gives to Iterate (part_004, lines 73-84): an *)
(* unknown address is skipped, another parse error is returned, else the   *)
(* UDPHandler is called with the raw bytes and the VMC message.            *)
(***************************************************************************)
ReadHandler(m, e) ==
    LET r == ParseOscMessage(m)
    IN  IF Is(r.err, "ErrUnknownAddress") THEN e = NoErr /\ UNCHANGED srv
        ELSE IF r.err # NoErr
        THEN e = Wrap("failed to parse VMC message", r.err) /\ UNCHANGED srv
        ELSE /\ e \in HandlerErrors
             /\ srv' = [srv EXCEPT !.delivered =
                            Append(@, [raw |-> m.Raw, message |-> r.message, err |-> e])]

\* Iterate, lines 82-84: a message packet; the handler's result is returned.
IterateMessage ==
    /\ pc = "Iterate"
    /\ iter[Len(iter)].p.Message # Nil
    /\ LET m == iter[Len(iter)].p.Message
       IN  \E e \in HandlerErrors
                    \cup {Wrap("failed to parse VMC message", ParseOscMessage(m).err)} :
              /\ IF srv = Nil THEN UserHandler(m, e) ELSE ReadHandler(m, e)
              /\ handled' = Append(handled, [msg |-> m, err |-> e])
              /\ IterateReturn(e)
    /\ UNCHANGED <<input, buf, stack, msg, call, ret, addressFilters, parsed>>

\* Iterate, lines 86-91: the next packet of the bundle's contents.
IterateBundle ==
    /\ pc = "Iterate"
    /\ iter[Len(iter)].p.Message = Nil
    /\ iter[Len(iter)].p.Bundle # Nil
    /\ iter[Len(iter)].i < Len(iter[Len(iter)].p.Bundle.Contents)
    /\ LET top == iter[Len(iter)]
       IN  iter' = Append([iter EXCEPT ![Len(iter)].i = top.i + 1],
                          Frame(top.p.Bundle.Contents[top.i + 1]))
    /\ UNCHANGED <<input, buf, pc, stack, msg, call, ret, handled, itret, srv,
                   addressFilters, parsed>>

\* Iterate, line 96: the loop is over (or the packet holds nothing).
IterateEnd ==
    /\ pc = "Iterate"
    /\ iter[Len(iter)].p.Message = Nil
    /\ \/ iter[Len(iter)].p.Bundle = Nil
       \/ iter[Len(iter)].i = Len(iter[Len(iter)].p.Bundle.Contents)
    /\ IterateReturn(NoErr)
    /\ UNCHANGED <<input, buf, stack, msg, call, ret, handled, srv, addressFilters, parsed>>

Iterate == IterateMessage \/ IterateBundle \/ IterateEnd

\* A user calls Iterate on the packet ReadPacket returned.
IterateCall ==
    /\ pc = "done"
    /\ srv = Nil
    /\ ret.err = NoErr
    /\ pc' = "Iterate"
    /\ iter' = <<Frame(ret.packet)>>
    /\ handled' = <<>>
    /\ UNCHANGED <<input, buf, stack, msg, call, ret, itret, srv, addressFilters, parsed>>

(***************************************************************************)
(* UDPServer.Read (part_004, lines 54-92).  srv is the running call: the   *)
(* calls of the UDPHandler it has made and the error it returned; input is *)
(* the datagram the connection delivers.                                   *)
(***************************************************************************)
Serving == [delivered |-> <<>>, err |-> NoErr]

\* What the connection may answer to SetReadDeadline and ReadFrom.
ConnErrors == {NoErr, Err("net error")}

\* Read, lines 55-64: the deadline, the datagram and the view of its n bytes.
ReadFrom ==
    /\ pc = "Read"
    /\ \E deadline \in ConnErrors, read \in ConnErrors :
          IF deadline # NoErr
          THEN /\ srv' = [srv EXCEPT !.err =
                              Wrap("failed to set read deadline on the connection", deadline)]
               /\ pc' = "ReadReturned"
          ELSE IF read # NoErr
          THEN /\ srv' = [srv EXCEPT !.err =
                              Wrap("failed to read from the UDP connection", read)]
               /\ pc' = "ReadReturned"
          ELSE pc' = "ReadLoop" /\ UNCHANGED srv
    /\ buf' = input
    /\ UNCHANGED <<input, stack, msg, call, ret, iter, handled, itret, addressFilters, parsed>>

\* Read, lines 66-67 and 91: the loop over the packets of the datagram.
ReadLoop ==
    /\ pc = "ReadLoop"
    /\ pc' = IF Len(buf) > 0 THEN "ReadPacket" ELSE "ReadReturned"
    /\ UNCHANGED <<input, buf, stack, msg, call, ret, env>>

\* Read, lines 68-73: ReadPacket returned; Iterate is called on the packet.
ReadPacketReturned ==
    /\ pc = "done"
    /\ srv # Nil
    /\ IF ret.err # NoErr
       THEN /\ srv' = [srv EXCEPT !.err = Wrap("failed to parse OSC packet", ret.err)]
            /\ pc' = "ReadReturned"
            /\ UNCHANGED <<buf, iter, handled>>
       ELSE /\ buf' = ret.rest
            /\ iter' = <<Frame(ret.packet)>>
            /\ handled' = <<>>
            /\ pc' = "Iterate"
            /\ UNCHANGED srv
    /\ UNCHANGED <<input, stack, msg, call, ret, itret, addressFilters, parsed>>

\* Read, lines 85-89: Iterate returned; an error ends Read.
ReadIterateReturned ==
    /\ pc = "IterateReturned"
    /\ srv # Nil
    /\ IF itret # NoErr
       THEN /\ srv' = [srv EXCEPT !.err = Wrap("failed handling VMC message", itret)]
            /\ pc' = "ReadReturned"
       ELSE pc' = "ReadLoop" /\ UNCHANGED srv
    /\ UNCHANGED <<input, buf, stack, msg, call, ret, iter, handled, itret,
                   addressFilters, parsed>>

Read == ReadFrom \/ ReadLoop \/ ReadPacketReturned \/ ReadIterateReturned

(***************************************************************************)
(* Package vmc: ParseMessage on the bytes of one message (vmc.go,          *)
(* decode.go, marionette.go).  A result is (Message, error), or a panic.   *)
(***************************************************************************)
Ok(m) == [message |-> m, err |-> NoErr, panic |-> FALSE]

Failure(e) == [message |-> Nil, err |-> e, panic |-> FALSE]

Crash == [message |-> Nil, err |-> NoErr, panic |-> TRUE]

\* The panic of a slice expression data[lo:hi] with hi > len(data).
OutOfRange == [message |-> Nil, err |-> Err("slice bounds out of range"), panic |-> TRUE]

\* out, which reads fixed slices of data up to data[:hi]: Go checks the bounds.
Within(data, hi, out) == IF hi <= Len(data) THEN out ELSE OutOfRange

InvalidBufferLengthError(length, expected) ==
    [kind |-> "InvalidBufferLengthError", Length |-> length, Expected |-> expected,
     wrap |-> <<>>]

\* A pointer to v (a field that is present); an absent field is Nil.
Ptr(v) == [value |-> v]

\* data[lo:hi]; the caller has checked hi <= len(data).
Slice(data, lo, hi) == SubSeq(data, lo + 1, hi)

(***************************************************************************)
(* osc.ReadTypeTags: the view must start with ','; the string is read by   *)
(* the string rule and handed back without the ','.                        *)
(***************************************************************************)
ReadTypeTags(b) ==
    IF Len(b) = 0 \/ b[1] # TypeTagsMarker
    THEN Ret(Nil, Nil, Err("ErrTypeTagsStartMissing"))
    ELSE LET r == ReadString(b)
         IN  IF r.panic \/ r.err # NoErr THEN r
             ELSE Ret(From(r.val, 1), r.rest, NoErr)

getString(b) ==
    LET r == ReadString(b)
    IN  IF r.panic THEN r
        ELSE IF r.err # NoErr THEN Ret(Nil, Nil, Wrap("failed reading string", r.err))
        ELSE r

getTypeTags(b) ==
    LET r == ReadTypeTags(b)
    IN  IF r.panic THEN r
        ELSE IF r.err # NoErr THEN Ret(Nil, Nil, Wrap("failed reading type tags", r.err))
        ELSE r

getInt32(b) == BigEndianInt32(Upto(b, 4))

getFloat32(b) == Float32frombits(BigEndianInt32(Upto(b, 4)))

getVec3(b) ==
    [X |-> getFloat32(Slice(b, 0, 4)), Y |-> getFloat32(Slice(b, 4, 8)),
     Z |-> getFloat32(Slice(b, 8, 12))]

\* getVec4 reading W from the bytes of Z.
getVec4Misaligned(b) ==
    [X |-> getFloat32(Slice(b, 0, 4)), Y |-> getFloat32(Slice(b, 4, 8)),
     Z |-> getFloat32(Slice(b, 8, 12)), W |-> getFloat32(Slice(b, 8, 12))]

getVec4(b) ==
    [X |-> getFloat32(Slice(b, 0, 4)), Y |-> getFloat32(Slice(b, 4, 8)),
     Z |-> getFloat32(Slice(b, 8, 12)), W |-> getFloat32(Slice(b, 12, 16))]

\* A getString that did not return a string, and what the decoder returns then.
Bad(s) == s.panic \/ s.err # NoErr

StringFailure(s) == IF s.panic THEN Crash ELSE Failure(s.err)

(***************************************************************************)
(* The type-tag strings each decoder accepts, in the order of the Expected *)
(* list of its InvalidTypeTagsError.                                       *)
(***************************************************************************)
TypeTagsOf(fn) ==
    CASE fn = "parseAvailable" -> <<Rep(TypeTagInt, 1), Rep(TypeTagInt, 3), Rep(TypeTagInt, 4)>>
      [] fn = "parseRelativeTime" -> <<<<TypeTagFloat>>>>
      [] fn = "parseRootTransform" ->
            <<<<TypeTagString>> \o Rep(TypeTagFloat, 7),
              <<TypeTagString>> \o Rep(TypeTagFloat, 13)>>
      [] fn = "parseBoneTransform" -> <<<<TypeTagString>> \o Rep(TypeTagFloat, 7)>>
      [] fn = "parseBlendShapeProxyValue" -> <<<<TypeTagString, TypeTagFloat>>>>
      [] fn = "parseBlendShapeProxyApply" -> <<<<>>>>
      [] fn = "parseCameraTransform" -> <<<<TypeTagString>> \o Rep(TypeTagFloat, 8)>>
      [] fn = "parseControllerInput" ->
            <<<<TypeTagInt, TypeTagString>> \o Rep(TypeTagInt, 3) \o Rep(TypeTagFloat, 3)>>
      [] fn = "parseKeyboardInput" -> <<<<TypeTagInt, TypeTagString, TypeTagInt>>>>
      [] fn = "parseMidiNoteInput" -> <<Rep(TypeTagInt, 3) \o <<TypeTagFloat>>>>
      [] fn = "parseMidiCCValueInput" -> <<<<TypeTagInt, TypeTagFloat>>>>
      [] fn = "parseMidiCCButtonInput" -> <<Rep(TypeTagInt, 2)>>
      [] fn = "parseDeviceTransform" -> <<<<TypeTagString>> \o Rep(TypeTagFloat, 7)>>
      [] fn = "parseReceiveEnable" ->
            <<Rep(TypeTagInt, 2), Rep(TypeTagInt, 2) \o <<TypeTagString>>>>
      [] fn = "parseDirectionalLight" -> <<<<TypeTagString>> \o Rep(TypeTagFloat, 11)>>
      [] fn = "parseLocalVrm" -> <<Rep(TypeTagString, 2), Rep(TypeTagString, 3)>>
      [] fn = "parseRemoteVrm" -> <<Rep(TypeTagString, 2)>>
      [] fn = "parseOptionString" -> <<<<TypeTagString>>>>
      [] fn = "parseBackgroundColor" -> <<Rep(TypeTagFloat, 4)>>
      [] fn = "parseWindowAttribute" -> <<Rep(TypeTagInt, 4)>>
      [] fn = "parseLoadedSettingPath" -> <<<<TypeTagString>>>>

\* string(tags) is one of the strings the decoder compares it with.
Accepts(fn, tags) == \E k \in 1..Len(TypeTagsOf(fn)) : tags = TypeTagsOf(fn)[k]

(***************************************************************************)
(* The InvalidTypeTagsError of a decoder.  parseBlendShapeProxyApply, which *)
(* accepts only the empty string, sets Expected to nil.                    *)
(***************************************************************************)
ExpectedOf(fn) == IF fn = "parseBlendShapeProxyApply" THEN <<>> ELSE TypeTagsOf(fn)

\* What every decoder returns when string(tags) is none of its type-tag strings.
InvalidTypeTags(fn, tags) == Failure(InvalidTypeTagsError(tags, ExpectedOf(fn)))

InvalidBufferLength(data, expected) ==
    Failure(InvalidBufferLengthError(Len(data), expected))

parseAvailable(tags, data) ==
    IF ~Accepts("parseAvailable", tags) THEN InvalidTypeTags("parseAvailable", tags)
    ELSE IF Len(data) # 4 /\ Len(data) # 12 /\ Len(data) # 16
    THEN InvalidBufferLength(data, <<4, 8, 12>>)
    ELSE Within(data, 4,
         LET loaded == getInt32(Slice(data, 0, 4)) = 1
             rawState == getInt32(Slice(data, 4, 8))
             rawMode == getInt32(Slice(data, 8, 12))
             versioned == Len(data) = 12 \/ Len(data) = 16
         IN  IF versioned /\ ~(Uint8(rawState) <= CalibrationStateCalibrated)
             THEN Failure(InvalidEnumValueError("calibration state", rawState))
             ELSE IF versioned /\ ~(Uint8(rawMode) <= CalibrationModeMrFloorFix)
             THEN Failure(InvalidEnumValueError("calibration mode", rawMode))
             ELSE Ok([type |-> "Available",
                      Loaded |-> loaded,
                      CalibrationState |-> IF versioned THEN Ptr(Uint8(rawState)) ELSE Nil,
                      CalibrationMode |-> IF versioned THEN Ptr(Uint8(rawMode)) ELSE Nil,
                      TrackingStatus |->
                          IF Len(data) = 16 THEN Ptr(getInt32(Slice(data, 12, 16)) = 1)
                          ELSE Nil]))

\* parseRelativeTime checking the length of the payload before the type tags.
parseRelativeTimeLengthFirst(tags, data) ==
    IF Len(data) # 4 THEN InvalidBufferLength(data, <<4>>)
    ELSE IF ~Accepts("parseRelativeTime", tags)
    THEN InvalidTypeTags("parseRelativeTime", tags)
    ELSE Within(data, 4, Ok([type |-> "RelativeTime", Time |-> getFloat32(Slice(data, 0, 4))]))

parseRelativeTime(tags, data) ==
    IF ~Accepts("parseRelativeTime", tags) THEN InvalidTypeTags("parseRelativeTime", tags)
    ELSE IF Len(data) # 4 THEN InvalidBufferLength(data, <<4>>)
    ELSE Within(data, 4, Ok([type |-> "RelativeTime", Time |-> getFloat32(Slice(data, 0, 4))]))

parseRootTransform(tags, data) ==
    IF ~Accepts("parseRootTransform", tags) THEN InvalidTypeTags("parseRootTransform", tags)
    ELSE LET s == getString(data)
         IN  IF Bad(s) THEN StringFailure(s)
             ELSE IF Len(s.rest) # 28 /\ Len(s.rest) # 52
             THEN InvalidBufferLength(s.rest, <<28, 52>>)
             ELSE Within(s.rest, 28, Ok([type |-> "RootTransform",
                      Name |-> s.val,
                      Position |-> getVec3(Slice(s.rest, 0, 12)),
                      Quaternion |-> getVec4(Slice(s.rest, 12, 28)),
                      Scale |-> IF Len(s.rest) = 52
                                THEN Ptr(getVec3(Slice(s.rest, 28, 40))) ELSE Nil,
                      Offset |-> IF Len(s.rest) = 52
                                 THEN Ptr(getVec3(Slice(s.rest, 40, 52))) ELSE Nil]))

parseBoneTransform(tags, data) ==
    IF ~Accepts("parseBoneTransform", tags) THEN InvalidTypeTags("parseBoneTransform", tags)
    ELSE LET s == getString(data)
         IN  IF Bad(s) THEN StringFailure(s)
             ELSE IF Len(s.rest) # 28 THEN InvalidBufferLength(s.rest, <<28>>)
             ELSE Within(s.rest, 28, Ok([type |-> "BoneTransform", Name |-> s.val,
                      Position |-> getVec3(Slice(s.rest, 0, 12)), Quaternion |-> getVec4(Slice(s.rest, 12, 28))]))

parseBlendShapeProxyValue(tags, data) ==
    IF ~Accepts("parseBlendShapeProxyValue", tags)
    THEN InvalidTypeTags("parseBlendShapeProxyValue", tags)
    ELSE LET s == getString(data)
         IN  IF Bad(s) THEN StringFailure(s)
             ELSE IF Len(s.rest) # 4 THEN InvalidBufferLength(s.rest, <<4>>)
             ELSE Within(s.rest, 4, Ok([type |-> "BlendShapeProxyValue", Name |-> s.val,
                      Value |-> getFloat32(Slice(s.rest, 0, 4))]))

parseBlendShapeProxyApply(tags, data) ==
    IF ~Accepts("parseBlendShapeProxyApply", tags)
    THEN InvalidTypeTags("parseBlendShapeProxyApply", tags)
    ELSE IF Len(data) # 0 THEN InvalidBufferLength(data, <<>>)
    ELSE Ok([type |-> "BlendShapeProxyApply"])

parseCameraTransform(tags, data) ==
    IF ~Accepts("parseCameraTransform", tags) THEN InvalidTypeTags("parseCameraTransform", tags)
    ELSE LET s == getString(data)
         IN  IF Bad(s) THEN StringFailure(s)
             ELSE IF Len(s.rest) # 32 THEN InvalidBufferLength(s.rest, <<32>>)
             ELSE Within(s.rest, 32, Ok([type |-> "CameraTransform", Name |-> s.val,
                      Position |-> getVec3(Slice(s.rest, 0, 12)), Quaternion |-> getVec4(Slice(s.rest, 12, 28)),
                      FOV |-> getFloat32(Slice(s.rest, 28, 32))]))

parseControllerInput(tags, data) ==
    IF ~Accepts("parseControllerInput", tags) THEN InvalidTypeTags("parseControllerInput", tags)
    ELSE IF Len(data) <= 4 THEN InvalidBufferLength(data, <<4>>)
    ELSE Within(data, 4,
         LET rawValue == getInt32(Slice(data, 0, 4))
             s == getString(From(data, 4))
         IN  IF ~(Uint8(rawValue) <= ControllerActiveChangeAxis)
             THEN Failure(InvalidEnumValueError("active (controller)", rawValue))
             ELSE IF Bad(s) THEN StringFailure(s)
             ELSE IF Len(s.rest) # 24 THEN InvalidBufferLength(s.rest, <<24>>)
             ELSE Within(s.rest, 24, Ok([type |-> "ControllerInput",
                      Active |-> Uint8(rawValue),
                      Name |-> s.val,
                      IsLeft |-> getInt32(Slice(s.rest, 0, 4)) = 1,
                      IsTouch |-> getInt32(Slice(s.rest, 4, 8)) = 1,
                      IsAxis |-> getInt32(Slice(s.rest, 8, 12)) = 1,
                      Axis |-> getVec3(Slice(s.rest, 12, 24))])))

parseKeyboardInput(tags, data) ==
    IF ~Accepts("parseKeyboardInput", tags) THEN InvalidTypeTags("parseKeyboardInput", tags)
    ELSE IF Len(data) <= 4 THEN InvalidBufferLength(data, <<4>>)
    ELSE Within(data, 4,
         LET s == getString(From(data, 4))
         IN  IF Bad(s) THEN StringFailure(s)
             ELSE IF Len(s.rest) # 4 THEN InvalidBufferLength(s.rest, <<4>>)
             ELSE Within(s.rest, 4, Ok([type |-> "KeyboardInput",
                      Active |-> getInt32(Slice(data, 0, 4)) = 1,
                      Name |-> s.val,
                      KeyCode |-> getInt32(Slice(s.rest, 0, 4))])))

parseMidiNoteInput(tags, data) ==
    IF ~Accepts("parseMidiNoteInput", tags) THEN InvalidTypeTags("parseMidiNoteInput", tags)
    ELSE IF Len(data) # 16 THEN InvalidBufferLength(data, <<16>>)
    ELSE Within(data, 16, Ok([type |-> "MidiNoteInput",
             Active |-> getInt32(Slice(data, 0, 4)) = 1,
             Channel |-> getInt32(Slice(data, 4, 8)),
             Note |-> getInt32(Slice(data, 8, 12)),
             Velocity |-> getFloat32(Slice(data, 12, 16))]))

\* parseMidiCCValueInput without its check of len(data).
parseMidiCCValueInputUnchecked(tags, data) ==
    IF ~Accepts("parseMidiCCValueInput", tags) THEN InvalidTypeTags("parseMidiCCValueInput", tags)
    ELSE Within(data, 8, Ok([type |-> "MidiCCValueInput",
             Knob |-> getInt32(Slice(data, 0, 4)),
             Value |-> getFloat32(Slice(data, 4, 8))]))

parseMidiCCValueInput(tags, data) ==
    IF ~Accepts("parseMidiCCValueInput", tags) THEN InvalidTypeTags("parseMidiCCValueInput", tags)
    ELSE IF Len(data) # 8 THEN InvalidBufferLength(data, <<8>>)
    ELSE Within(data, 8, Ok([type |-> "MidiCCValueInput",
             Knob |-> getInt32(Slice(data, 0, 4)),
             Value |-> getFloat32(Slice(data, 4, 8))]))

parseMidiCCButtonInput(tags, data) ==
    IF ~Accepts("parseMidiCCButtonInput", tags)
    THEN InvalidTypeTags("parseMidiCCButtonInput", tags)
    ELSE IF Len(data) # 8 THEN InvalidBufferLength(data, <<8>>)
    ELSE Within(data, 8, Ok([type |-> "MidiCCButtonInput",
             Knob |-> getInt32(Slice(data, 0, 4)),
             Active |-> getInt32(Slice(data, 4, 8)) = 1]))

parseDeviceTransform(tags, data) ==
    IF ~Accepts("parseDeviceTransform", tags) THEN InvalidTypeTags("parseDeviceTransform", tags)
    ELSE LET s == getString(data)
         IN  IF Bad(s) THEN StringFailure(s)
             ELSE IF Len(s.rest) # 28 THEN InvalidBufferLength(s.rest, <<28>>)
             ELSE Within(s.rest, 28, Ok([type |-> "DeviceTransform", Serial |-> s.val,
                      Position |-> getVec3(Slice(s.rest, 0, 12)), Quaternion |-> getVec4(Slice(s.rest, 12, 28))]))

parseReceiveEnable(tags, data) ==
    IF ~Accepts("parseReceiveEnable", tags) THEN InvalidTypeTags("parseReceiveEnable", tags)
    ELSE IF Len(data) < 8 THEN InvalidBufferLength(data, <<8>>)
    ELSE LET s == getString(From(data, 8))
         IN  IF Len(data) > 8 /\ Bad(s) THEN StringFailure(s)
             ELSE Within(data, 8, Ok([type |-> "ReceiveEnable",
                      Enable |-> getInt32(Slice(data, 0, 4)) = 1,
                      Port |-> getInt32(Slice(data, 4, 8)),
                      IPAddress |-> IF Len(data) > 8 THEN Ptr(s.val) ELSE Nil]))

parseDirectionalLight(tags, data) ==
    IF ~Accepts("parseDirectionalLight", tags)
    THEN InvalidTypeTags("parseDirectionalLight", tags)
    ELSE LET s == getString(data)
         IN  IF Bad(s) THEN StringFailure(s)
             ELSE IF Len(s.rest) # 44 THEN InvalidBufferLength(s.rest, <<44>>)
             ELSE Within(s.rest, 44, Ok([type |-> "DirectionalLight", Name |-> s.val,
                      Position |-> getVec3(Slice(s.rest, 0, 12)),
                      Quaternion |-> getVec4(Slice(s.rest, 12, 28)),
                      Color |-> getVec4(Slice(s.rest, 28, 44))]))

parseLocalVrm(tags, data) ==
    IF ~Accepts("parseLocalVrm", tags) THEN InvalidTypeTags("parseLocalVrm", tags)
    ELSE IF Len(data) = 0 THEN InvalidBufferLength(data, <<1>>)
    ELSE LET path == getString(data)
             title == getString(path.rest)
             hash == getString(title.rest)
         IN  IF Bad(path) THEN StringFailure(path)
             ELSE IF Bad(title) THEN StringFailure(title)
             ELSE IF Len(title.rest) > 0 /\ Bad(hash) THEN StringFailure(hash)
             ELSE Ok([type |-> "LocalVrm", Path |-> path.val, Title |-> title.val,
                      Hash |-> IF Len(title.rest) > 0 THEN Ptr(hash.val) ELSE Nil])

parseRemoteVrm(tags, data) ==
    IF ~Accepts("parseRemoteVrm", tags) THEN InvalidTypeTags("parseRemoteVrm", tags)
    ELSE IF Len(data) = 0 THEN InvalidBufferLength(data, <<1>>)
    ELSE LET service == getString(data)
             json == getString(service.rest)
         IN  IF Bad(service) THEN StringFailure(service)
             ELSE IF Bad(json) THEN StringFailure(json)
             ELSE Ok([type |-> "RemoteVrm", Service |-> service.val, JSON |-> json.val])

parseOptionString(tags, data) ==
    IF ~Accepts("parseOptionString", tags) THEN InvalidTypeTags("parseOptionString", tags)
    ELSE IF Len(data) = 0 THEN InvalidBufferLength(data, <<1>>)
    ELSE LET option == getString(data)
         IN  IF Bad(option) THEN StringFailure(option)
             ELSE Ok([type |-> "OptionString", Option |-> option.val])

parseBackgroundColor(tags, data) ==
    IF ~Accepts("parseBackgroundColor", tags) THEN InvalidTypeTags("parseBackgroundColor", tags)
    ELSE IF Len(data) # 16 THEN InvalidBufferLength(data, <<16>>)
    ELSE Within(data, 16, Ok([type |-> "BackgroundColor", Color |-> getVec4(Slice(data, 0, 16))]))

parseWindowAttribute(tags, data) ==
    IF ~Accepts("parseWindowAttribute", tags) THEN InvalidTypeTags("parseWindowAttribute", tags)
    ELSE IF Len(data) # 16 THEN InvalidBufferLength(data, <<16>>)
    ELSE Within(data, 16, Ok([type |-> "WindowAttribute",
             IsTopMost |-> getInt32(Slice(data, 0, 4)) = 1,
             IsTransparent |-> getInt32(Slice(data, 4, 8)) = 1,
             WindowClickThrough |-> getInt32(Slice(data, 8, 12)) = 1,
             HideBorder |-> getInt32(Slice(data, 12, 16)) = 1]))

parseLoadedSettingPath(tags, data) ==
    IF ~Accepts("parseLoadedSettingPath", tags)
    THEN InvalidTypeTags("parseLoadedSettingPath", tags)
    ELSE IF Len(data) = 0 THEN InvalidBufferLength(data, <<1>>)
    ELSE LET path == getString(data)
         IN  IF Bad(path) THEN StringFailure(path)
             ELSE Ok([type |-> "LoadedSettingPath", Path |-> path.val])

\* The switch of ParseMessage: the decoder of the address, on the tags and the payload.
Decode(fn, tags, data) ==
    CASE fn = "parseAvailable" -> parseAvailable(tags, data)
      [] fn = "parseRelativeTime" -> parseRelativeTime(tags, data)
      [] fn = "parseRootTransform" -> parseRootTransform(tags, data)
      [] fn = "parseBoneTransform" -> parseBoneTransform(tags, data)
      [] fn = "parseBlendShapeProxyValue" -> parseBlendShapeProxyValue(tags, data)
      [] fn = "parseBlendShapeProxyApply" -> parseBlendShapeProxyApply(tags, data)
      [] fn = "parseCameraTransform" -> parseCameraTransform(tags, data)
      [] fn = "parseControllerInput" -> parseControllerInput(tags, data)
      [] fn = "parseKeyboardInput" -> parseKeyboardInput(tags, data)
      [] fn = "parseMidiNoteInput" -> parseMidiNoteInput(tags, data)
      [] fn = "parseMidiCCValueInput" -> parseMidiCCValueInput(tags, data)
      [] fn = "parseMidiCCButtonInput" -> parseMidiCCButtonInput(tags, data)
      [] fn = "parseDeviceTransform" -> parseDeviceTransform(tags, data)
      [] fn = "parseReceiveEnable" -> parseReceiveEnable(tags, data)
      [] fn = "parseDirectionalLight" -> parseDirectionalLight(tags, data)
      [] fn = "parseLocalVrm" -> parseLocalVrm(tags, data)
      [] fn = "parseRemoteVrm" -> parseRemoteVrm(tags, data)
      [] fn = "parseOptionString" -> parseOptionString(tags, data)
      [] fn = "parseBackgroundColor" -> parseBackgroundColor(tags, data)
      [] fn = "parseWindowAttribute" -> parseWindowAttribute(tags, data)
      [] fn = "parseLoadedSettingPath" -> parseLoadedSettingPath(tags, data)
      [] OTHER -> Failure(Err("ErrUnknownAddress"))

\* filterAddress letting through every address that a filter is a prefix of.
filterAddressByPrefix(address, filters) ==
    \/ Len(filters) = 0
    \/ \E k \in 1..Len(filters) :
          /\ Len(filters[k]) <= Len(address)
          /\ Upto(address, Len(filters[k])) = filters[k]

\* filterAddress: no filter lets every address through.
filterAddress(address, filters) ==
    Len(filters) = 0 \/ \E k \in 1..Len(filters) : address = filters[k]

\* ParseMessage looking the address up in the table before it filters.
ParseAddressLookupFirst(data, filters) ==
    LET a == getString(data)
    IN  IF a.panic THEN [done |-> TRUE, out |-> Crash, address |-> <<>>, rest |-> <<>>]
        ELSE IF a.err # NoErr
        THEN [done |-> TRUE, out |-> Failure(a.err), address |-> <<>>, rest |-> <<>>]
        ELSE IF Decoder(a.val) = ""
        THEN [done |-> TRUE, out |-> Failure(Err("ErrUnknownAddress")),
              address |-> a.val, rest |-> a.rest]
        ELSE IF ~filterAddress(a.val, filters)
        THEN [done |-> TRUE, out |-> Failure(Err("ErrFiltered")),
              address |-> a.val, rest |-> a.rest]
        ELSE [done |-> FALSE, out |-> Nil, address |-> a.val, rest |-> a.rest]

(***************************************************************************)
(* ParseMessage(data, addressFilters...), first half: the address is read  *)
(* and filtered.  done says that ParseMessage has returned (or panicked).  *)
(***************************************************************************)
ParseAddress(data, filters) ==
    LET a == getString(data)
    IN  IF a.panic THEN [done |-> TRUE, out |-> Crash, address |-> <<>>, rest |-> <<>>]
        ELSE IF a.err # NoErr
        THEN [done |-> TRUE, out |-> Failure(a.err), address |-> <<>>, rest |-> <<>>]
        ELSE IF ~filterAddress(a.val, filters)
        THEN [done |-> TRUE, out |-> Failure(Err("ErrFiltered")),
              address |-> a.val, rest |-> a.rest]
        ELSE [done |-> FALSE, out |-> Nil, address |-> a.val, rest |-> a.rest]

\* ParseMessage looking the address up before it reads the type tags.
ParseTypeTagsAfterLookup(address, data) ==
    LET t == getTypeTags(data)
    IN  IF Decoder(address) = "" THEN Failure(Err("ErrUnknownAddress"))
        ELSE IF t.panic THEN Crash
        ELSE IF t.err # NoErr THEN Failure(t.err)
        ELSE Decode(Decoder(address), t.val, t.rest)

(***************************************************************************)
(* Second half: the type tags are read, then the address selects the       *)
(* decoder.                                                                *)
(***************************************************************************)
ParseTypeTags(address, data) ==
    LET t == getTypeTags(data)
    IN  IF t.panic THEN Crash
        ELSE IF t.err # NoErr THEN Failure(t.err)
        ELSE Decode(Decoder(address), t.val, t.rest)

ParseMessage(data, filters) ==
    LET h == ParseAddress(data, filters)
    IN  IF h.done THEN h.out ELSE ParseTypeTags(h.address, h.rest)

(***************************************************************************)
(* ParseMessage as two steps on the bytes in input with the filters in     *)
(* addressFilters: the address is read and filtered, then the type tags    *)
(* are read and the decoder runs.  call keeps the last reader call, parsed *)
(* what ParseMessage returned.                                             *)
(***************************************************************************)
ParseMessageAddress ==
    /\ pc = "ParseMessage"
    /\ LET h == ParseAddress(input, addressFilters)
       IN  /\ call' = Called("getString", input, getString(input))
           /\ IF h.done
              THEN /\ parsed' = h.out
                   /\ pc' = IF h.out.panic THEN "panic" ELSE "ParseMessageReturned"
                   /\ UNCHANGED <<buf, msg>>
              ELSE /\ msg' = [NoMsg EXCEPT !.address = h.address]
                   /\ buf' = h.rest
                   /\ pc' = "getTypeTags"
                   /\ UNCHANGED parsed
    /\ UNCHANGED <<input, stack, ret, iter, handled, itret, srv, addressFilters>>

ParseMessageTypeTags ==
    /\ pc = "getTypeTags"
    /\ LET out == ParseTypeTags(msg.address, buf)
       IN  /\ call' = Called("getTypeTags", buf, getTypeTags(buf))
           /\ parsed' = out
           /\ pc' = IF out.panic THEN "panic" ELSE "ParseMessageReturned"
    /\ UNCHANGED <<input, buf, msg, stack, ret, iter, handled, itret, srv, addressFilters>>

(***************************************************************************)
(* The datagrams the reader is run on.  They are built the way a sender    *)
(* encodes OSC (a string ends in 1 to 4 zero bytes up to a multiple of 4,  *)
(* a length is a big-endian word), then cut off at every byte position or  *)
(* damaged, since any byte string may arrive.                              *)
(***************************************************************************)
MaxStrLen == 8
MaxBlobLen == 8
MaxTags == 2
MaxDepth == 2
PayloadWords == 2
RawLen == 2

Prefixes(s) == {Upto(s, k) : k \in 0..Len(s)}

Zeros(n) == [i \in 1..n |-> 0]

\* n bytes base+1, base+2, ...: all different and none zero.
Pattern(base, n) == [i \in 1..n |-> base + i]

RECURSIVE Concat(_)
Concat(ss) == IF ss = <<>> THEN <<>> ELSE Head(ss) \o Concat(Tail(ss))

\* All sequences over S of exactly n / of at most n elements.
RECURSIVE SeqsOfLen(_, _)
SeqsOfLen(S, n) ==
    IF n = 0 THEN {<<>>}
    ELSE {<<x>> \o t : x \in S, t \in SeqsOfLen(S, n - 1)}

SeqsUpTo(S, n) == UNION {SeqsOfLen(S, k) : k \in 0..n}

EncString(content) == content \o Zeros(4 - (Len(content) % 4))

\* A length 0 <= n < 2^16 as a big-endian word.
EncLength(n) == <<0, 0, n \div 256, n % 256>>

\* "/\0\0\0" and the type-tag string: a message up to its payload.
Header(tags) == EncString(<<MessageMarker>>) \o EncString(<<TypeTagsMarker>> \o tags)

Words == {<<0, 0, 0, 0>>, <<0, 0, 0, 5>>, <<255, 255, 255, 255>>, <<128, 2, 3, 4>>}

FixedTags ==
    {TypeTagInt, TypeTagFloat, TypeTagInt64, TypeTagTimeTag, TypeTagDouble,
     TypeTagChar, TypeTagRgba, TypeTagMidi}

\* One fixed-width argument over every payload of up to PayloadWords words and a bit.
FixedInputs ==
    {Header(<<t>>) \o p :
        t \in FixedTags,
        p \in UNION {Prefixes(Concat(ws) \o <<9, 9>>) : ws \in SeqsOfLen(Words, PayloadWords)}}

\* One string argument of every content length, with 0 to 8 bytes after its
\* terminator, and without a terminator.
StringInputs ==
    {Header(<<t>>) \o Pattern(96, n) \o tail :
        t \in {TypeTagString, TypeTagSymbol},
        n \in 0..MaxStrLen,
        tail \in {<<>>} \cup {<<0>> \o x : x \in Prefixes(<<0, 0, 0, 1, 2, 0, 4, 5>>)}}

\* One blob argument: every declared length (and three that are negative or
\* huge) over every number of bytes that follow it.
BlobInputs ==
    {Header(<<TypeTagBlob>>) \o len \o Pattern(0, n) :
        len \in {EncLength(k) : k \in 0..MaxBlobLen}
                \cup {<<255, 255, 255, 255>>, <<128, 0, 0, 0>>, <<127, 0, 0, 0>>},
        n \in 0..(MaxBlobLen + 5)}
    \cup {Header(<<TypeTagBlob>>) \o p : p \in Prefixes(<<0, 0, 0>>)}

\* A sender's encoding of one argument of each kind.
EncArgument(tag) ==
    CASE tag = TypeTagInt -> <<0, 0, 0, 5>>
      [] tag = TypeTagString -> EncString(<<104, 105>>)
      [] tag = TypeTagBlob -> EncLength(3) \o <<1, 2, 3, 0>>
      [] tag = TypeTagInt64 -> <<0, 0, 0, 0, 0, 0, 0, 5>>
      [] OTHER -> <<>>

TagAlphabet ==
    {TypeTagInt, TypeTagString, TypeTagBlob, TypeTagTrue, TypeTagNil,
     TypeTagArrayStart, 120, 255}

\* Several arguments, the payload cut off at every position.
TagInputs ==
    UNION {{Header(tags) \o p :
              p \in Prefixes(Concat([i \in 1..Len(tags) |-> EncArgument(tags[i])])
                             \o <<0, 0, 0, 7>>)} :
           tags \in SeqsUpTo(TagAlphabet \cup {TypeTagFalse, TypeTagInfinitum, TypeTagArrayEnd, 128}, 1)
                    \cup SeqsUpTo(TagAlphabet, MaxTags)}

\* Every byte string of up to RawLen bytes over a few bytes.
RawInputs == SeqsUpTo({0, BundleMarker, TypeTagsMarker, MessageMarker, 97, 255}, RawLen)

\* Addresses of every padding, followed by type tags or by something else.
AddressInputs ==
    UNION {Prefixes(EncString(<<MessageMarker>> \o Pattern(96, n)) \o next) :
            n \in 0..4,
            next \in {<<TypeTagsMarker, 0, 0, 0>>, <<TypeTagsMarker, TypeTagInt, 0, 0, 0, 0, 0, 5>>,
                      <<TypeTagInt, 0, 0, 0>>, <<0, 0, 0, 0>>, <<0, TypeTagsMarker, 0, 0>>}}

(***************************************************************************)
(* Bundles.  An element is its length and its bytes; a bundle is the       *)
(* identifier, a time tag and its elements.                                *)
(***************************************************************************)
Messages == {Header(<<>>), Header(<<TypeTagInt>>) \o <<0, 0, 0, 5>>}

Element(p) == EncLength(Len(p)) \o p

BundleOf(elems) ==
    EncString(BundleIdentifier) \o <<0, 0, 0, 0, 0, 0, 0, 1>>
        \o Concat([i \in 1..Len(elems) |-> Element(elems[i])])

\* Bundles nested d deep: around the nested bundle, a message or none on each side.
RECURSIVE Bundles(_)
Bundles(d) ==
    IF d <= 1 THEN {BundleOf(ms) : ms \in SeqsUpTo(Messages, 2)}
    ELSE {BundleOf(pre \o <<b>> \o post) :
            b \in Bundles(d - 1),
            pre \in SeqsUpTo(Messages, 1),
            post \in SeqsUpTo(Messages, 1)}

BundleInputs ==
    UNION {Bundles(d) : d \in 1..MaxDepth}
    \cup UNION {Prefixes(b) : b \in Bundles(1)}

\* A bundle of one element whose declared length or whose bytes are off.
ElementInputs ==
    {BundleOf(<<>>) \o len \o body :
        len \in {EncLength(0), EncLength(8), EncLength(9), EncLength(100),
                 <<255, 255, 255, 255>>},
        body \in {Header(<<>>), Zeros(8), <<97, 0, 0, 0, 0, 0, 0, 0>>, <<0>>}}

\* Identifiers other than "#bundle", and a time tag cut off.
IdentifierInputs ==
    {EncString(id) \o p :
        id \in {BundleIdentifier, <<35, 98, 117, 110, 100, 108, 120>>, <<35, 98>>,
                <<35>>, BundleIdentifier \o <<115>>},
        p \in Prefixes(<<0, 0, 0, 0, 0, 0, 0, 1>> \o Element(Header(<<>>)))}

\* Well-formed packets, for two of them back to back in one datagram.
WellFormed ==
    Messages
    \cup {Header(<<t>>) \o EncArgument(t) : t \in {TypeTagString, TypeTagBlob, TypeTagInt64}}
    \cup Bundles(1)

BackToBack == {p1 \o p2 : p1 \in WellFormed, p2 \in WellFormed}

Inputs ==
    FixedInputs \cup StringInputs \cup BlobInputs \cup TagInputs \cup RawInputs
    \cup AddressInputs \cup BundleInputs \cup ElementInputs \cup IdentifierInputs
    \cup BackToBack

Init ==
    /\ input \in Inputs
    /\ buf = input
    /\ pc = "ReadPacket"
    /\ stack = <<>>
    /\ msg = NoMsg
    /\ call = NoCall
    /\ ret = NoRet
    /\ iter = <<>>
    /\ handled = <<>>
    /\ itret = NoErr
    /\ srv = Nil
    /\ addressFilters = <<>>
    /\ parsed = Nil

Next == ReadPacket \/ readMessage \/ readBundle

Spec == Init /\ [][Next]_vars

(***************************************************************************)
(* ReadSpec: a user calls ReadPacket and then Iterate with a handler of    *)
(* their own (srv is Nil), or UDPServer.Read runs on the datagram.  The    *)
(* datagrams hold up to two packets: messages of an address that is not a  *)
(* VMC address, of two that decode and of one whose type tags are wrong,   *)
(* bundles of them, and the bundles and damaged bundles of Spec.           *)
(***************************************************************************)
MaxElems == 2

VmcMessage(address, tags, payload) ==
    EncString(address) \o EncString(<<TypeTagsMarker>> \o tags) \o payload

TransportMessages ==
    {Header(<<>>),
     VmcMessage(AddressBlendShapeProxyApply, <<>>, <<>>),
     VmcMessage(AddressRelativeTime, <<TypeTagFloat>>, <<63, 140, 204, 205>>),
     VmcMessage(AddressRelativeTime, <<TypeTagInt>>, <<0, 0, 0, 1>>)}

TransportBundles ==
    {BundleOf(ms) : ms \in SeqsUpTo(TransportMessages, MaxElems)}
    \cup {BundleOf(pre \o <<BundleOf(in)>> \o post) :
            in \in SeqsUpTo(TransportMessages, 1),
            pre \in SeqsUpTo(TransportMessages, 1),
            post \in SeqsUpTo(TransportMessages, 1)}

TransportPackets == TransportMessages \cup TransportBundles

Datagrams ==
    {<<>>} \cup TransportPackets
    \cup {m \o p : m \in TransportMessages, p \in TransportPackets}
    \cup {p \o m : p \in TransportPackets, m \in TransportMessages}
    \cup BundleInputs \cup ElementInputs

InitRead ==
    /\ input \in Datagrams
    /\ srv \in {Nil, Serving}
    /\ buf = IF srv = Nil THEN input ELSE <<>>
    /\ pc = IF srv = Nil THEN "ReadPacket" ELSE "Read"
    /\ stack = <<>>
    /\ msg = NoMsg
    /\ call = NoCall
    /\ ret = NoRet
    /\ iter = <<>>
    /\ handled = <<>>
    /\ itret = NoErr
    /\ addressFilters = <<>>
    /\ parsed = Nil

NextRead == ReadPacket \/ readMessage \/ readBundle \/ IterateCall \/ Iterate \/ Read

ReadSpec == InitRead /\ [][NextRead]_vars

(***************************************************************************)
(* The byte strings and the filters ParseMessage is run on: every address  *)
(* of the table and some that are not in it, with the type tags of its     *)
(* decoder, of other decoders and damaged ones, and payloads that fit the  *)
(* tags, fit the decoder, or are cut short.                                *)
(***************************************************************************)
MaxFilters == 2

KnownAddresses ==
    {AddressAvailable, AddressRelativeTime, AddressRootTransform, AddressBoneTransform,
     AddressBlendShapeProxyValue, AddressBlendShapeProxyApply, AddressCameraTransform,
     AddressControllerInput, AddressKeyboardInput, AddressMidiNoteInput,
     AddressMidiCCValueInput, AddressMidiCCButtonInput, AddressDeviceTransformHmd,
     AddressDeviceTransformCon, AddressDeviceTransformTra, AddressDeviceTransformHmdLocal,
     AddressDeviceTransformConLocal, AddressDeviceTransformTraLocal, AddressReceiveEnable,
     AddressDirectionalLight, AddressLocalVrm, AddressRemoteVrm, AddressOptionString,
     AddressBackgroundColor, AddressWindowAttribute, AddressLoadedSettingPath}

\* "", "/x", "/VMC/Ext/O", "/VMC/Ext/OKK" and "/vmc/ext/ok".
UnknownAddresses ==
    {<<>>, <<47, 120>>, Upto(AddressAvailable, 10), AddressAvailable \o <<75>>,
     <<47, 118, 109, 99, 47, 101, 120, 116, 47, 111, 107>>}

VmcAddresses == KnownAddresses \cup UnknownAddresses

Signatures(address) ==
    IF Decoder(address) = "" THEN {}
    ELSE {TypeTagsOf(Decoder(address))[k] : k \in 1..Len(TypeTagsOf(Decoder(address)))}

\* The tags of the decoder, the same with one tag less or one more, and others.
VmcTags(address) ==
    Signatures(address)
    \cup {Upto(t, Len(t) - 1) : t \in Signatures(address) \ {<<>>}}
    \cup {t \o <<TypeTagInt>> : t \in Signatures(address)}
    \cup {<<>>, <<TypeTagInt>>, <<TypeTagString>> \o Rep(TypeTagFloat, 7), <<120>>}

RECURSIVE EncPayload(_)
EncPayload(tags) ==
    IF tags = <<>> THEN <<>>
    ELSE (CASE Head(tags) = TypeTagInt -> <<0, 0, 0, 1>>
            [] Head(tags) = TypeTagFloat -> <<63, 140, 204, 205>>
            [] Head(tags) = TypeTagString -> EncString(<<97, 98>>)
            [] OTHER -> <<>>) \o EncPayload(Tail(tags))

VmcPayloads(address, tags) ==
    {EncPayload(tags)}
    \cup {EncPayload(t) : t \in Signatures(address)}
    \cup {<<>>, <<1>>, <<97, 0>>, Zeros(4)}

\* The type tags are missing, lack the ',', lack the end, or are cut in the padding.
DamagedTags(address) ==
    {EncString(address) \o t :
        t \in {<<>>, <<TypeTagInt, 0, 0, 0>>, <<TypeTagsMarker, TypeTagInt>>,
               <<TypeTagsMarker, TypeTagInt, 0>>}}

VmcInputs ==
    UNION {UNION {{VmcMessage(a, t, p) : p \in VmcPayloads(a, t)} : t \in VmcTags(a)} :
           a \in VmcAddresses}
    \cup UNION {DamagedTags(a) : a \in VmcAddresses}
    \cup {<<>>, <<47, 120>>, <<47, 120, 0>>}

FilterLists ==
    UNION {[1..n -> {AddressAvailable, <<47, 120>>}] : n \in 0..MaxFilters}

\* Filters that name the address of the message itself.
OwnFilters(data) ==
    LET a == getString(data)
    IN  IF Bad(a) THEN {} ELSE {<<a.val>>, <<AddressRelativeTime, a.val>>}

InitVmc ==
    /\ input \in VmcInputs
    /\ addressFilters \in FilterLists \cup OwnFilters(input)
    /\ buf = input
    /\ pc = "ParseMessage"
    /\ stack = <<>>
    /\ msg = NoMsg
    /\ call = NoCall
    /\ ret = NoRet
    /\ iter = <<>>
    /\ handled = <<>>
    /\ itret = NoErr
    /\ srv = Nil
    /\ parsed = Nil

NextVmc == ParseMessageAddress \/ ParseMessageTypeTags

VmcSpec == InitVmc /\ [][NextVmc]_vars

(***************************************************************************)
(* The payloads the decoders are run on: for every address of the table    *)
(* and every type-tag string its decoder accepts, payloads built field by  *)
(* field from chosen values, every prefix of such a payload, the payload   *)
(* with bytes after its last field, and the payload of another accepted    *)
(* type-tag string of the same address.                                    *)
(***************************************************************************)
MaxNameLen == 3
MaxTrail == 2

\* 0, 1, 2, 3, 4, 9, 256 and -1 as 32-bit big-endian words.
FieldWords ==
    {<<0, 0, 0, 0>>, <<0, 0, 0, 1>>, <<0, 0, 0, 2>>, <<0, 0, 0, 3>>, <<0, 0, 0, 4>>,
     <<0, 0, 0, 9>>, <<0, 0, 1, 0>>, <<255, 255, 255, 255>>}

\* 0.0 and 1.1 as 32-bit big-endian words.
FieldFloats == {<<0, 0, 0, 0>>, <<63, 140, 204, 205>>}

FieldNames == {[i \in 1..n |-> 97 + i] : n \in 0..MaxNameLen}

\* The integer fields of a payload take odd or even by their place, its floats are
\* f plus their place (so that no two are the same), its strings are name.
Choices == [odd : FieldWords, even : FieldWords, f : FieldFloats, name : FieldNames]

TheChoice == [odd |-> <<0, 0, 0, 1>>, even |-> <<0, 0, 0, 2>>, f |-> <<63, 140, 204, 205>>,
              name |-> <<98, 99>>]

RECURSIVE EncFields(_, _, _)
EncFields(tags, c, nth) ==
    IF tags = <<>> THEN <<>>
    ELSE (CASE Head(tags) = TypeTagInt -> IF nth % 2 = 1 THEN c.odd ELSE c.even
            [] Head(tags) = TypeTagFloat -> <<c.f[1], c.f[2], c.f[3], (c.f[4] + nth) % 256>>
            [] Head(tags) = TypeTagString -> EncString(c.name)
            [] OTHER -> <<>>) \o EncFields(Tail(tags), c, nth + 1)

Trails == UNION {[1..n -> {0, 97}] : n \in 1..MaxTrail} \cup {Zeros(4), Zeros(8)}

DecodePayloads(address, tags) ==
    {EncFields(tags, c, 1) : c \in Choices}
    \cup Prefixes(EncFields(tags, TheChoice, 1))
    \cup {EncFields(tags, TheChoice, 1) \o x : x \in Trails}
    \cup {EncFields(s, TheChoice, 1) : s \in Signatures(address)}

DecodeInputs ==
    UNION {UNION {{VmcMessage(a, t, p) : p \in DecodePayloads(a, t)} : t \in Signatures(a)} :
           a \in KnownAddresses}
    \cup UNION {UNION {{VmcMessage(a, t, p) : p \in Prefixes(EncFields(t, TheChoice, 1))} :
                       t \in VmcTags(a)} : a \in VmcAddresses}

InitDecode ==
    /\ input \in DecodeInputs
    /\ addressFilters = <<>>
    /\ buf = input
    /\ pc = "ParseMessage"
    /\ stack = <<>>
    /\ msg = NoMsg
    /\ call = NoCall
    /\ ret = NoRet
    /\ iter = <<>>
    /\ handled = <<>>
    /\ itret = NoErr
    /\ srv = Nil
    /\ parsed = Nil

DecodeSpec == InitDecode /\ [][NextVmc]_vars

(***************************************************************************)
(* Properties.                                                             *)
(***************************************************************************)
Ended == pc \in {"done", "panic"}

Succeeded == pc = "done" /\ ret.err = NoErr

Failed == pc = "done" /\ ret.err # NoErr

(***************************************************************************)
(* C1: ReadPacket dispatches on the first byte of its view: an empty view  *)
(* yields ErrInputEmpty, '/' (47) takes the message path, '#' (35) takes   *)
(* the bundle path, every other first byte yields ErrInvalidPacket.        *)
(***************************************************************************)
C1_Dispatch ==
    [][pc = "ReadPacket" =>
         IF buf = <<>> THEN pc' = "done" /\ ret'.err = Err("ErrInputEmpty")
         ELSE IF buf[1] = 47 THEN pc' = "readMessage" /\ buf' = buf
         ELSE IF buf[1] = 35 THEN pc' = "readBundle" /\ buf' = buf
         ELSE pc' = "done" /\ ret'.err = Err("ErrInvalidPacket")]_vars

\* An element of a bundle that does not start with '/' or '#' was rejected.
C1_Witness ==
    /\ Failed
    /\ ret.err = Err("ErrInvalidPacket")
    /\ call.fn = "readLength"

RECURSIVE ExactlyOne(_)
ExactlyOne(p) ==
    /\ (p.Message = Nil) # (p.Bundle = Nil)
    /\ p.Bundle # Nil =>
         \A i \in 1..Len(p.Bundle.Contents) : ExactlyOne(p.Bundle.Contents[i])

(***************************************************************************)
(* C2: on success the returned packet, and every packet in the contents of *)
(* a bundle in it, has exactly one of Message and Bundle set; on failure   *)
(* neither a packet nor a remaining buffer is returned.                    *)
(***************************************************************************)
C2_ExactlyOne ==
    /\ Succeeded => ret.packet # Nil /\ ExactlyOne(ret.packet)
    /\ Failed => ret.packet = Nil /\ ret.rest = Nil
    /\ pc = "panic" => ret = NoRet

\* A bundle holding a non-empty bundle was decoded.
C2_Witness ==
    /\ Succeeded
    /\ ret.packet.Bundle # Nil
    /\ \E i \in 1..Len(ret.packet.Bundle.Contents) :
         /\ ret.packet.Bundle.Contents[i].Bundle # Nil
         /\ ret.packet.Bundle.Contents[i].Bundle.Contents # <<>>

(***************************************************************************)
(* C3: for two well-formed packets P1 and P2, ReadPacket on P1 P2 decodes  *)
(* P1 and returns exactly the bytes of P2 as the remaining buffer.         *)
(***************************************************************************)
C3_BackToBack ==
    \A p1 \in WellFormed, p2 \in WellFormed :
        Ended /\ input = p1 \o p2 =>
            /\ Succeeded
            /\ ret.rest = p2
            /\ (p1[1] = 47) = (ret.packet.Message # Nil)

(***************************************************************************)
(* What a call of a reader consumed, and the string rule.                  *)
(***************************************************************************)
Returned == ~call.res.panic /\ call.res.err = NoErr

Consumed == Len(call.arg) - Len(call.res.rest)

\* The value is the n bytes before the first zero byte of the view.
ValueBeforeTerminator(n) ==
    /\ call.res.val = [i \in 1..n |-> call.arg[i]]
    /\ \A i \in 1..n : call.arg[i] # 0
    /\ call.arg[n + 1] = 0

\* The remaining view is the view without its first k bytes.
RestAfter(k) ==
    /\ k <= Len(call.arg)
    /\ call.res.rest = [i \in 1..(Len(call.arg) - k) |-> call.arg[k + i]]

(***************************************************************************)
(* C4, as amended: whenever ReadString returns a string of content length  *)
(* L, it has consumed L + (4 - L % 4) bytes, which is L + 4 (not 4) when   *)
(* L % 4 = 0, and the value is the L bytes before the first zero byte.     *)
(***************************************************************************)
C4_PaddingLaw ==
    call.fn = "readString" /\ Returned =>
        LET L == Len(call.res.val)
        IN  /\ ValueBeforeTerminator(L)
            /\ Consumed = L + (4 - (L % 4))
            /\ L % 4 = 0 => Consumed = L + 4
            /\ RestAfter(Consumed)

\* A string of 8 bytes was read: 12 bytes consumed.
C4_Witness ==
    /\ call.fn = "readString"
    /\ Returned
    /\ Len(call.res.val) = 8
    /\ Consumed = 12
    /\ call.res.rest # <<>>

(***************************************************************************)
(* C4 as stated: L + (4 - L % 4) bytes when L % 4 # 0 and 4 bytes when     *)
(* L % 4 = 0.                                                              *)
(***************************************************************************)
C4_AsStated ==
    call.fn = "readString" /\ Returned =>
        LET L == Len(call.res.val)
        IN  /\ ValueBeforeTerminator(L)
            /\ Consumed = IF L % 4 # 0 THEN L + (4 - (L % 4)) ELSE 4

(***************************************************************************)
(* C5: ReadString either returns ErrStringMissingTerminator or a remaining *)
(* view that is a suffix of its view; it never slices past the end.        *)
(***************************************************************************)
C5_BoundsSafe ==
    call.fn = "readString" =>
        /\ ~call.res.panic
        /\ \/ call.res.err = Err("ErrStringMissingTerminator")
           \/ /\ call.res.err = NoErr
              /\ \E k \in 0..Len(call.arg) : RestAfter(k)

Width(fn) ==
    CASE fn \in {"readInt", "readFloat", "readChar", "readRgba", "readMidi"} -> 4
      [] fn \in {"readInt64", "readTimeTag", "readDouble"} -> 8

TooShort(fn) ==
    CASE fn = "readInt" -> "ErrIntTooShort"
      [] fn = "readFloat" -> "ErrFloatTooShort"
      [] fn = "readInt64" -> "ErrInt64TooShort"
      [] fn = "readTimeTag" -> "ErrTimeTagTooShort"
      [] fn = "readDouble" -> "ErrDoubleTooShort"
      [] fn = "readChar" -> "ErrCharTooShort"
      [] fn = "readRgba" -> "ErrRgbaTooShort"
      [] fn = "readMidi" -> "ErrMidiTooShort"

\* Byte k (0 the lowest) of the two's complement form of v.
ByteOf(v, k) == (v \div (256 ^ k)) % 256

\* The signed 32-bit v is the big-endian reading of the 4 bytes of b from off + 1.
IsInt32Of(v, b, off) ==
    /\ v \in (0 - 2147483647 - 1)..2147483647
    /\ \A k \in 0..3 : ByteOf(v, k) = b[off + 4 - k]

\* The 64-bit v, as its signed upper half and the two limbs of its lower half.
IsInt64Of(v, b) ==
    /\ IsInt32Of(v.hi, b, 0)
    /\ \A j \in 1..2 : /\ v.lo[j] \div 256 = b[3 + 2 * j]
                       /\ v.lo[j] % 256 = b[4 + 2 * j]

IsValueOf(fn, v, b) ==
    CASE fn \in {"readInt", "readChar"} -> IsInt32Of(v, b, 0)
      [] fn = "readFloat" -> IsInt32Of(v.float32bits, b, 0)
      [] fn \in {"readInt64", "readTimeTag"} -> IsInt64Of(v, b)
      [] fn = "readDouble" -> IsInt64Of(v.float64bits, b)
      [] fn \in {"readRgba", "readMidi"} -> v = [i \in 1..4 |-> b[i]]

FixedReaders ==
    {"readInt", "readFloat", "readInt64", "readTimeTag", "readDouble", "readChar",
     "readRgba", "readMidi"}

(***************************************************************************)
(* C6: a fixed-width read on a view shorter than its width fails with the  *)
(* TooShort error of its kind and hands back no view; otherwise it returns *)
(* the big-endian value of the first width bytes and the view without      *)
(* them.                                                                   *)
(***************************************************************************)
C6_FixedWidth ==
    call.fn \in FixedReaders =>
        /\ ~call.res.panic
        /\ IF Len(call.arg) < Width(call.fn)
           THEN /\ call.res.err = Err(TooShort(call.fn))
                /\ call.res.rest = Nil
           ELSE /\ call.res.err = NoErr
                /\ IsValueOf(call.fn, call.res.val, call.arg)
                /\ Consumed = Width(call.fn)
                /\ RestAfter(Width(call.fn))

\* A negative int32 was read with bytes left over.
C6_Witness ==
    /\ call.fn = "readInt"
    /\ Returned
    /\ call.res.val < -1
    /\ call.res.rest # <<>>

RoundUp4(n) == ((n + 3) \div 4) * 4

\* The declared length of the blob, when the view holds the 4 bytes of it.
Declared == BigEndianInt32(call.arg)

(***************************************************************************)
(* C7: a blob of content length L >= 0 consumes the 4-byte length and the  *)
(* content padded to the smallest multiple of 4 that is >= L, and the      *)
(* value is the L content bytes.                                           *)
(***************************************************************************)
C7_BlobPadding ==
    /\ call.fn = "readBlob"
    /\ Len(call.arg) >= 4
    /\ Declared >= 0
    /\ Len(call.arg) - 4 >= RoundUp4(Declared)
    => /\ Returned
       /\ call.res.val = [i \in 1..Declared |-> call.arg[4 + i]]
       /\ Consumed = 4 + RoundUp4(Declared)

(***************************************************************************)
(* C8: readBlob yields ErrNegativeLength for a negative length and         *)
(* ErrBlobTooShort whenever the bytes after the length do not hold the     *)
(* content and its padding; it then returns no value and does not advance. *)
(***************************************************************************)
C8_BlobErrors ==
    call.fn = "readBlob" /\ Len(call.arg) >= 4 =>
        /\ Declared < 0 =>
             ~call.res.panic /\ Is(call.res.err, "ErrNegativeLength") /\ call.res.rest = Nil
        /\ Declared >= 0 /\ Len(call.arg) - 4 < RoundUp4(Declared) =>
             ~call.res.panic /\ Is(call.res.err, "ErrBlobTooShort") /\ call.res.rest = Nil

RECURSIVE MessagesOf(_)
MessagesOf(p) ==
    IF p.Message # Nil THEN {p.Message}
    ELSE UNION {MessagesOf(p.Bundle.Contents[i]) : i \in 1..Len(p.Bundle.Contents)}

\* The argument a is of the kind the tag (a byte) stands for.
KindOf(tag, a) ==
    CASE tag \in {105, 99} -> a # Nil /\ a.type = "int32" /\ a.v \in Int
      [] tag = 102 -> a # Nil /\ a.type = "float32"
      [] tag \in {115, 83} -> a # Nil /\ a.type = "string"
      [] tag = 98 -> a # Nil /\ a.type = "[]byte"
      [] tag \in {104, 116} -> a # Nil /\ a.type = "int64"
      [] tag = 100 -> a # Nil /\ a.type = "float64"
      [] tag \in {114, 109} -> a # Nil /\ a.type = "[4]byte" /\ Len(a.v) = 4
      [] tag = 84 -> a = GoValue("bool", TRUE)
      [] tag = 70 -> a = GoValue("bool", FALSE)
      [] tag \in {78, 124} -> a = Nil
      [] OTHER -> FALSE

ZeroWidthTags == {84, 70, 78, 124}

OnePerTag(m) ==
    /\ Len(m.Arguments) = Len(m.TypeTags)
    /\ \A i \in 1..Len(m.TypeTags) :
         m.TypeTags[i] # 44 /\ KindOf(m.TypeTags[i], m.Arguments[i])

\* In the loop: the arguments decoded so far, in order; the others still nil.
InTagOrder ==
    pc = "readMessageArguments" =>
        /\ msg.typeTags[1] = 44
        /\ Len(msg.arguments) = Len(msg.typeTags) - 1
        /\ \A i \in 1..Len(msg.arguments) :
             IF i <= msg.idx THEN KindOf(msg.typeTags[i + 1], msg.arguments[i])
             ELSE msg.arguments[i] = Nil

(***************************************************************************)
(* C9: a decoded message has one argument per type tag, in tag order, the  *)
(* kind of each fixed by its tag; TypeTags does not hold the ',' marker;   *)
(* the tags T, F, N and | consume no payload bytes.                        *)
(***************************************************************************)
C9_Arguments ==
    /\ [](Succeeded => \A m \in MessagesOf(ret.packet) : OnePerTag(m))
    /\ []InTagOrder
    /\ [][/\ pc = "readMessageArguments"
          /\ msg.idx < Len(msg.typeTags) - 1
          /\ msg.typeTags[msg.idx + 2] \in ZeroWidthTags
          => /\ pc' = "readMessageArguments"
             /\ msg'.idx = msg.idx + 1
             /\ buf' = buf]_vars

\* A message of tags "Ti" was decoded: a bool and an int32.
C9_Witness ==
    /\ Succeeded
    /\ ret.packet.Message # Nil
    /\ ret.packet.Message.TypeTags = <<84, 105>>
    /\ ret.packet.Message.Arguments = <<GoValue("bool", TRUE), GoValue("int32", 5)>>

KnownTags ==
    {105, 102, 115, 98, 104, 116, 100, 83, 99, 114, 109, 84, 70, 78, 124, 91, 93}

(***************************************************************************)
(* C10: in the loop over the tags, '[' and ']' yield ErrArraysNotSupported *)
(* and a character outside the tag set yields UnknownTypeTagError with     *)
(* that character; the first failing tag ends the decoding with its error, *)
(* and on an error no message, argument list or buffer is returned.        *)
(***************************************************************************)
C10_TagErrors ==
    [][/\ Ended => FALSE
       /\ pc = "readMessageArguments" /\ msg.idx < Len(msg.typeTags) - 1 =>
            LET b == msg.typeTags[msg.idx + 2]
                failed == pc' = "done" /\ ret'.packet = Nil /\ ret'.rest = Nil
                                       /\ stack' = <<>>
            IN  /\ b \in {91, 93} => failed /\ ret'.err = Err("ErrArraysNotSupported")
                /\ b \notin KnownTags =>
                     /\ failed
                     /\ ret'.err = UnknownTypeTagError(IF b < 128 THEN b ELSE 65533)
                /\ b \in KnownTags \ {91, 93} /\ call'.res.err # NoErr =>
                     failed /\ ret'.err = call'.res.err /\ call'.arg = buf
                /\ pc' = "readMessageArguments" =>
                     msg'.idx = msg.idx + 1 /\ ret' = ret]_vars

\* Tags "i[" over a payload too short for the int: the int's error is returned.
C10_Witness ==
    /\ Failed
    /\ Len(input) >= 8
    /\ Upto(input, 8) = <<47, 0, 0, 0, 44, 105, 91, 0>>
    /\ ret.err = Err("ErrIntTooShort")

\* The step ends every function on the call stack with (nil, nil, e).
FailsWith(e) ==
    /\ pc' = "done"
    /\ ret' = [packet |-> Nil, rest |-> Nil, err |-> e]
    /\ stack' = <<>>

(***************************************************************************)
(* C11: in readMessage, once the address string and its padding are        *)
(* consumed, the next byte must be ',' (44): when no byte is left or the   *)
(* next byte is another one, readMessage fails with                        *)
(* ErrTypeTagsStartMissing; otherwise the type tags are read from there.   *)
(***************************************************************************)
C11_MarkerRequired ==
    [][pc = "readMessage" /\ ~call'.res.panic /\ call'.res.err = NoErr =>
         LET rest == call'.res.rest
         IN  /\ call'.fn = "readString"
             /\ call'.arg = buf
             /\ IF Len(rest) = 0 \/ rest[1] # 44
                THEN FailsWith(Err("ErrTypeTagsStartMissing"))
                ELSE pc' = "readMessageTypeTags" /\ buf' = rest /\ ret' = ret]_vars

\* An address was read and the byte after its padding is not ','.
C11_Witness ==
    /\ Failed
    /\ ret.err = Err("ErrTypeTagsStartMissing")
    /\ call.fn = "readString"
    /\ Returned
    /\ call.res.rest # <<>>
    /\ call.res.rest[1] # 44

\* The message the step hands to its caller: to the user, or to the bundle loop.
ReturnedMessage ==
    IF stack = <<>> THEN ret'.packet.Message
    ELSE LET contents == stack'[Len(stack')].contents
         IN  contents[Len(contents)].Message

(***************************************************************************)
(* C12: the Raw field of every decoded message, also of one that is        *)
(* followed by further bytes, spans from the first byte of the address     *)
(* through the last byte its last argument consumed: its length is the     *)
(* number of bytes the message consumed.                                   *)
(***************************************************************************)
C12_RawSpan ==
    [][pc = "readMessageArguments" /\ msg.idx = Len(msg.typeTags) - 1 =>
         LET consumed == Len(msg.raw) - Len(buf)
         IN  /\ Len(ReturnedMessage.Raw) = consumed
             /\ ReturnedMessage.Raw = Upto(msg.raw, consumed)]_vars

\* The tree of a decoded packet: a message, or a bundle and its elements.
RECURSIVE Shape(_)
Shape(p) ==
    IF p.Message # Nil THEN [kind |-> "message", contents |-> <<>>]
    ELSE [kind |-> "bundle",
          contents |-> [i \in 1..Len(p.Bundle.Contents) |-> Shape(p.Bundle.Contents[i])]]

(***************************************************************************)
(* The tree the wire holds: a bundle is 16 bytes of identifier and time    *)
(* tag and then its elements, each the word of its length and that many    *)
(* bytes.                                                                  *)
(***************************************************************************)
RECURSIVE WireShape(_), WireElements(_)
WireShape(p) ==
    IF p[1] = 47 THEN [kind |-> "message", contents |-> <<>>]
    ELSE [kind |-> "bundle", contents |-> WireElements(From(p, 16))]

WireElements(b) ==
    IF Len(b) < 4 THEN <<>>
    ELSE LET n == BigEndianInt32(Upto(b, 4))
         IN  <<WireShape(SubSeq(b, 5, 4 + n))>> \o WireElements(From(b, 4 + n))

(***************************************************************************)
(* C13: a well-formed bundle, each element declaring its encoded size,     *)
(* decodes to the tree the wire holds: one packet per element at each      *)
(* level, in wire order; an element after a nested bundle belongs to the   *)
(* outer bundle.                                                           *)
(***************************************************************************)
C13_NestedStructure ==
    Ended /\ input \in UNION {Bundles(d) : d \in 1..MaxDepth} =>
        /\ Succeeded
        /\ Shape(ret.packet) = WireShape(input)

(***************************************************************************)
(* C14: in readBundle the identifier that is read back must be exactly     *)
(* "#bundle": every other string yields ErrInvalidBundleIdentifier; with   *)
(* fewer than 8 bytes after the identifier the time tag yields             *)
(* ErrTimeTagTooShort.                                                     *)
(***************************************************************************)
C14_Identifier ==
    [][/\ pc = "readBundle" /\ ~call'.res.panic /\ call'.res.err = NoErr =>
            /\ call'.fn = "readString"
            /\ call'.arg = buf
            /\ IF call'.res.val = <<35, 98, 117, 110, 100, 108, 101>>
               THEN pc' = "readBundleTimeTag" /\ buf' = call'.res.rest /\ ret' = ret
               ELSE FailsWith(Err("ErrInvalidBundleIdentifier"))
       /\ pc = "readBundleTimeTag" =>
            IF Len(buf) < 8 THEN FailsWith(Err("ErrTimeTagTooShort"))
            ELSE pc' = "readBundleLoop" /\ ret' = ret]_vars

\* The identifier "#bundlx" was read back and rejected.
C14_Witness ==
    /\ Failed
    /\ ret.err = Err("ErrInvalidBundleIdentifier")
    /\ call.fn = "readString"
    /\ call.res.val = <<35, 98, 117, 110, 100, 108, 120>>

(***************************************************************************)
(* C15: the bundle loop runs while more than 4 bytes remain; an element of *)
(* negative declared length yields ErrNegativeLength, one whose declared   *)
(* length exceeds the bytes after the length field yields                  *)
(* ErrElementTooShort, and an error of any element fails the whole bundle: *)
(* no bundle holding the earlier elements is returned.                     *)
(***************************************************************************)
C15_BundleLoop ==
    [][/\ pc = "readBundleLoop" =>
            IF Len(buf) <= 4
            THEN /\ Len(stack') = Len(stack) - 1
                 /\ buf' = buf
                 /\ pc' = IF stack' = <<>> THEN "done" ELSE "readBundleLoop"
                 /\ stack' = <<>> => ret'.err = NoErr /\ ret'.packet.Bundle # Nil
            ELSE LET n == BigEndianInt32(Upto(buf, 4))
                 IN  IF n < 0 THEN FailsWith(Err("ErrNegativeLength"))
                     ELSE IF n > Len(buf) - 4 THEN FailsWith(Err("ErrElementTooShort"))
                     ELSE pc' = "ReadPacket" /\ buf' = From(buf, 4) /\ stack' = stack
       /\ stack # <<>> /\ pc' = "done" /\ ret'.err # NoErr =>
            ret'.packet = Nil /\ ret'.rest = Nil /\ stack' = <<>>]_vars

\* After a first element was decoded, the second declared more than was left.
C15_Witness ==
    /\ Failed
    /\ ret.err = Err("ErrElementTooShort")
    /\ call.fn = "readLength"
    /\ Len(call.arg) < Len(input) - 16
    /\ call.res.val > 0

(***************************************************************************)
(* The calls of Iterate's handler, and the order of the messages of a      *)
(* packet: a bundle's contents from first to last, each one in full before *)
(* the next.                                                               *)
(***************************************************************************)
Passed == [i \in 1..Len(handled) |-> handled[i].msg]

HandlerFailed == handled # <<>> /\ handled[Len(handled)].err # NoErr

IsPrefix(a, b) == Len(a) <= Len(b) /\ a = Upto(b, Len(a))

RECURSIVE DepthFirst(_)
DepthFirst(p) ==
    IF p.Message # Nil THEN <<p.Message>>
    ELSE Concat([i \in 1..Len(p.Bundle.Contents) |-> DepthFirst(p.Bundle.Contents[i])])

(***************************************************************************)
(* C16: Iterate calls the handler once for every message of the packet, in *)
(* depth-first order; once the handler has returned an error no further    *)
(* message is passed to it and Iterate returns that error; UDPServer.Read  *)
(* then processes nothing more of the datagram, calls the UDPHandler for   *)
(* no later message and returns the error.                                 *)
(***************************************************************************)
C16_IterateStops ==
    /\ [](pc \in {"Iterate", "IterateReturned"} =>
            /\ IsPrefix(Passed, DepthFirst(ret.packet))
            /\ \A i \in 1..(Len(handled) - 1) : handled[i].err = NoErr)
    /\ [](pc = "IterateReturned" =>
            IF itret = NoErr
            THEN Passed = DepthFirst(ret.packet) /\ ~HandlerFailed
            ELSE HandlerFailed /\ itret = handled[Len(handled)].err)
    /\ [][HandlerFailed =>
            /\ handled' = handled
            /\ srv # Nil => srv'.delivered = srv.delivered
            /\ pc' \in {"IterateReturned", "ReadReturned"}]_vars
    /\ [](pc = "ReadReturned" /\ HandlerFailed =>
            srv.err = Wrap("failed handling VMC message", handled[Len(handled)].err))

\* Read: the UDPHandler failed on the first of two messages of a bundle it
\* would have been called for; it was not called for the second.
C16_Witness ==
    /\ pc = "ReadReturned"
    /\ Len(srv.delivered) = 1
    /\ srv.delivered[1].err = Err("handler failed")
    /\ ret.packet.Bundle # Nil
    /\ Len(handled) < Len(DepthFirst(ret.packet))
    /\ ParseOscMessage(DepthFirst(ret.packet)[Len(handled) + 1]).err = NoErr

(***************************************************************************)
(* C17: ToMessages returns exactly the messages that Iterate passes to a   *)
(* handler that never fails, in the same order: the one message of a       *)
(* message packet, the flattened depth-first list of a bundle.             *)
(***************************************************************************)
C17_ToMessages ==
    pc = "IterateReturned" /\ (\A i \in 1..Len(handled) : handled[i].err = NoErr) =>
        /\ ToMessages(ret.packet) = Passed
        /\ ret.packet.Message # Nil => ToMessages(ret.packet) = <<ret.packet.Message>>

\* A bundle holding a message, a bundle of a message, was iterated in full.
C17_Witness ==
    /\ pc = "IterateReturned"
    /\ itret = NoErr
    /\ srv = Nil
    /\ ret.packet.Bundle # Nil
    /\ Len(ret.packet.Bundle.Contents) = 2
    /\ ret.packet.Bundle.Contents[1].Message # Nil
    /\ ret.packet.Bundle.Contents[2].Bundle # Nil
    /\ Len(handled) = 2
    /\ handled[2].msg = ret.packet.Bundle.Contents[2].Bundle.Contents[1].Message

\* ParseMessage has returned or panicked.
Parsed == pc \in {"ParseMessageReturned", "panic"} /\ parsed # Nil

\* The address of the message in input, when it can be read.
HasAddress == ~Bad(getString(input))

Listed == \E k \in DOMAIN addressFilters : addressFilters[k] = getString(input).val

(***************************************************************************)
(* C18: with a non-empty filter list, a message whose address is not in    *)
(* the list yields ErrFiltered and no reader call follows that of the      *)
(* address, whatever comes after the address; with an empty list nothing   *)
(* is filtered; with the address in the list the outcome is that of        *)
(* ParseMessage without filters.                                           *)
(***************************************************************************)
C18_Filtering ==
    (Parsed /\ HasAddress) =>
        /\ (addressFilters # <<>> /\ ~Listed) =>
               /\ parsed = Failure(Err("ErrFiltered"))
               /\ call.fn = "getString" /\ call.arg = input
        /\ addressFilters = <<>> => ~Is(parsed.err, "ErrFiltered")
        /\ (addressFilters # <<>> /\ Listed) =>
               /\ parsed = ParseMessage(input, <<>>)
               /\ ~Is(parsed.err, "ErrFiltered")

\* A message was filtered although its type tags cannot be read.
C18_Witness ==
    /\ Parsed /\ HasAddress
    /\ Is(parsed.err, "ErrFiltered")
    /\ Bad(getTypeTags(getString(input).rest))
    /\ getString(input).val \in KnownAddresses

\* The address is read and passes the filter: ParseMessage went on to the type tags.
Passes == HasAddress /\ (addressFilters = <<>> \/ Listed)

\* The type tags were read.
HasTypeTags == call.fn = "getTypeTags" /\ ~Bad(call.res)

Unknown == getString(input).val \notin KnownAddresses

(***************************************************************************)
(* C19: an address that is not one of the 26 of the table and passes the   *)
(* filter never yields a record; it yields ErrUnknownAddress whatever the  *)
(* type tags and the payload are when the type-tag string can be read, and *)
(* the failure of reading the type tags otherwise.                         *)
(***************************************************************************)
C19_UnknownAddress ==
    (Parsed /\ Passes /\ Unknown) =>
        /\ parsed.message = Nil
        /\ HasTypeTags => parsed = Failure(Err("ErrUnknownAddress"))
        /\ ~HasTypeTags =>
               /\ ~Is(parsed.err, "ErrUnknownAddress")
               /\ parsed.panic \/ parsed = Failure(getTypeTags(getString(input).rest).err)

\* C19 as stated: ErrUnknownAddress whatever follows the address.
C19_WhateverFollows ==
    (Parsed /\ Passes /\ Unknown) => parsed = Failure(Err("ErrUnknownAddress"))

\* An unknown address named by a filter, with the type tags and payload of Available.
C19_Witness ==
    /\ Parsed /\ Passes /\ Unknown
    /\ addressFilters # <<>>
    /\ HasTypeTags /\ call.res.val = <<TypeTagInt>> /\ Len(call.res.rest) = 4
    /\ Is(parsed.err, "ErrUnknownAddress")

\* The address, type tags and payload of a message whose type tags were read.
TheAddress == getString(input).val

TheTags == call.res.val

ThePayload == call.res.rest

\* Every type-tag string the inputs carry.
TagUniverse == UNION {VmcTags(a) : a \in VmcAddresses}

\* The signatures an address accepts: those its decoder does not answer with
\* InvalidTypeTagsError (on a payload that fits them).
AcceptedSet(address) ==
    {s \in TagUniverse :
        LET out == ParseTypeTags(address, EncString(<<TypeTagsMarker>> \o s) \o EncPayload(s))
        IN  out.panic \/ ~Is(out.err, "InvalidTypeTagsError")}

ExpectedSet(e) == {e.Expected[k] : k \in DOMAIN e.Expected}

WrongTags == Parsed /\ Passes /\ ~Unknown /\ HasTypeTags /\ TheTags \notin AcceptedSet(TheAddress)

(***************************************************************************)
(* C20: for a known address, type tags that are none of its accepted       *)
(* signatures yield InvalidTypeTagsError whatever the payload is, with the *)
(* found tags and the accepted signatures (3 for Available, 2 for          *)
(* RootTransform, ReceiveEnable and LocalVrm, 1 for the others), except    *)
(* that for BlendShapeProxyApply, which accepts only the empty string,     *)
(* the Expected list is empty.                                             *)
(***************************************************************************)
C20_InvalidTypeTags ==
    WrongTags =>
        /\ parsed.message = Nil /\ ~parsed.panic
        /\ Is(parsed.err, "InvalidTypeTagsError")
        /\ parsed.err.Found = TheTags
        /\ IF TheAddress = AddressBlendShapeProxyApply
           THEN parsed.err.Expected = <<>> /\ AcceptedSet(TheAddress) = {<<>>}
           ELSE /\ ExpectedSet(parsed.err) = AcceptedSet(TheAddress)
                /\ Len(parsed.err.Expected) =
                      CASE TheAddress = AddressAvailable -> 3
                        [] TheAddress \in {AddressRootTransform, AddressReceiveEnable,
                                           AddressLocalVrm} -> 2
                        [] OTHER -> 1

\* C20 as stated: the error carries the accepted set for every address.
C20_FullAcceptedSet ==
    WrongTags =>
        /\ Is(parsed.err, "InvalidTypeTagsError")
        /\ ExpectedSet(parsed.err) = AcceptedSet(TheAddress)

\* Wrong type tags before a payload whose string could not even be read.
C20_Witness ==
    /\ WrongTags
    /\ TheAddress = AddressRootTransform
    /\ TheTags = <<TypeTagString>> \o Rep(TypeTagFloat, 6)
    /\ ThePayload = <<97, 0>>
    /\ parsed.err.Expected =
          <<<<TypeTagString>> \o Rep(TypeTagFloat, 7), <<TypeTagString>> \o Rep(TypeTagFloat, 13)>>

\* ParseMessage returned a record.
Decoded == Parsed /\ ~parsed.panic /\ parsed.err = NoErr /\ parsed.message # Nil

\* The type tags were read for an address of the table and are one of its signatures.
RightTags == Parsed /\ Passes /\ ~Unknown /\ HasTypeTags /\ TheTags \in Signatures(TheAddress)

\* data holds exactly the fields of tags: a word for i and f, a padded string for s.
RECURSIVE Fits(_, _)
Fits(tags, data) ==
    IF tags = <<>> THEN data = <<>>
    ELSE IF Head(tags) = TypeTagString
    THEN LET s == ReadString(data)
         IN  ~s.panic /\ s.err = NoErr /\ Fits(Tail(tags), s.rest)
    ELSE Len(data) >= 4 /\ Fits(Tail(tags), From(data, 4))

(***************************************************************************)
(* C21: for a known address and one of its accepted signatures,            *)
(* ParseMessage succeeds only if the payload holds exactly the fields of   *)
(* that signature; any other payload is rejected with                      *)
(* InvalidBufferLengthError or the error of a string read.                 *)
(***************************************************************************)
C21_ExactLength ==
    RightTags =>
        /\ Decoded => Fits(TheTags, ThePayload)
        /\ ~Fits(TheTags, ThePayload) =>
              /\ ~parsed.panic
              /\ \/ Is(parsed.err, "InvalidBufferLengthError")
                 \/ Is(parsed.err, "ErrStringMissingTerminator")

\* The 32-bit value at byte offset lo of the payload.
RawAt(lo) == BigEndianInt32(SubSeq(ThePayload, lo + 1, lo + 4))

\* An enumerated field with the raw value raw and the variants 0..last was rejected.
RangeChecked(name, raw, last) ==
    raw \notin 0..last => parsed = Failure(InvalidEnumValueError(name, raw))

(***************************************************************************)
(* C22: a raw 32-bit value outside 0..3 for the calibration state, outside *)
(* 0..2 for the calibration mode or outside 0..2 for controller-active     *)
(* yields InvalidEnumValueError with the name of the field and the raw     *)
(* value; no such value is accepted.                                       *)
(***************************************************************************)
C22_EnumRange ==
    /\ (RightTags /\ TheAddress = AddressAvailable /\ Len(ThePayload) \in {12, 16}) =>
          /\ RangeChecked("calibration state", RawAt(4), 3)
          /\ RawAt(4) \in 0..3 => RangeChecked("calibration mode", RawAt(8), 2)
    /\ (RightTags /\ TheAddress = AddressControllerInput /\ Len(ThePayload) > 4) =>
          RangeChecked("active (controller)", RawAt(0), 2)

\* A pointer field of the record that is set.
Present(field) == parsed.message[field] # Nil

(***************************************************************************)
(* C23: a version-dependent field is present exactly when the supplied     *)
(* signature is a revision that carries it: CalibrationState and           *)
(* CalibrationMode iff iii or iiii, TrackingStatus iff iiii, Scale and     *)
(* Offset iff the 14 tags, IPAddress iff iis, Hash iff sss.                *)
(***************************************************************************)
C23_VersionFields ==
    (RightTags /\ Decoded) =>
        /\ TheAddress = AddressAvailable =>
              /\ Present("CalibrationState") <=> Len(TheTags) \in {3, 4}
              /\ Present("CalibrationMode") <=> Len(TheTags) \in {3, 4}
              /\ Present("TrackingStatus") <=> Len(TheTags) = 4
        /\ TheAddress = AddressRootTransform =>
              /\ Present("Scale") <=> Len(TheTags) = 14
              /\ Present("Offset") <=> Len(TheTags) = 14
        /\ TheAddress = AddressReceiveEnable => (Present("IPAddress") <=> Len(TheTags) = 3)
        /\ TheAddress = AddressLocalVrm => (Present("Hash") <=> Len(TheTags) = 3)

\* The device segment of a device-transform address and whether it ends in /Local.
DeviceOf(address) ==
    CASE address \in {AddressDeviceTransformHmd, AddressDeviceTransformHmdLocal} -> "Hmd"
      [] address \in {AddressDeviceTransformCon, AddressDeviceTransformConLocal} -> "Con"
      [] address \in {AddressDeviceTransformTra, AddressDeviceTransformTraLocal} -> "Tra"

LocalOf(address) ==
    address \in {AddressDeviceTransformHmdLocal, AddressDeviceTransformConLocal,
                 AddressDeviceTransformTraLocal}

(***************************************************************************)
(* C24: each of the 6 device-transform addresses decodes a payload to a    *)
(* DeviceTransform with the Serial, Position and Quaternion of the payload *)
(* and with the Device and Local that belong to the address.               *)
(***************************************************************************)
C24_DeviceDiscriminant ==
    (RightTags /\ Decoded /\ Decoder(TheAddress) = "parseDeviceTransform") =>
        /\ parsed.message.type = "DeviceTransform"
        /\ parsed.message.Serial = ReadString(ThePayload).val
        /\ parsed.message.Position = getVec3(Slice(ReadString(ThePayload).rest, 0, 12))
        /\ parsed.message.Quaternion = getVec4(Slice(ReadString(ThePayload).rest, 12, 28))
        /\ "Device" \in DOMAIN parsed.message
        /\ "Local" \in DOMAIN parsed.message
        /\ parsed.message.Device = DeviceOf(TheAddress)
        /\ parsed.message.Local = LocalOf(TheAddress)

\* The values on the wire, field by field: the int32 of an i, the float32 of an f,
\* the bytes before the terminator of an s.
RECURSIVE WireValues(_, _)
WireValues(tags, data) ==
    IF tags = <<>> THEN <<>>
    ELSE IF Head(tags) = TypeTagString
    THEN <<ReadString(data).val>> \o WireValues(Tail(tags), ReadString(data).rest)
    ELSE IF Head(tags) = TypeTagFloat
    THEN <<Float32frombits(BigEndianInt32(Upto(data, 4)))>>
             \o WireValues(Tail(tags), From(data, 4))
    ELSE <<BigEndianInt32(Upto(data, 4))>> \o WireValues(Tail(tags), From(data, 4))

Vec3At(v, k) == [X |-> v[k], Y |-> v[k + 1], Z |-> v[k + 2]]

Vec4At(v, k) == [X |-> v[k], Y |-> v[k + 1], Z |-> v[k + 2], W |-> v[k + 3]]

\* The record kind the table assigns to an address.
RecordKind(address) ==
    CASE address = AddressAvailable -> "Available"
      [] address = AddressRelativeTime -> "RelativeTime"
      [] address = AddressRootTransform -> "RootTransform"
      [] address = AddressBoneTransform -> "BoneTransform"
      [] address = AddressBlendShapeProxyValue -> "BlendShapeProxyValue"
      [] address = AddressBlendShapeProxyApply -> "BlendShapeProxyApply"
      [] address = AddressCameraTransform -> "CameraTransform"
      [] address = AddressControllerInput -> "ControllerInput"
      [] address = AddressKeyboardInput -> "KeyboardInput"
      [] address = AddressMidiNoteInput -> "MidiNoteInput"
      [] address = AddressMidiCCValueInput -> "MidiCCValueInput"
      [] address = AddressMidiCCButtonInput -> "MidiCCButtonInput"
      [] address = AddressReceiveEnable -> "ReceiveEnable"
      [] address = AddressDirectionalLight -> "DirectionalLight"
      [] address = AddressLocalVrm -> "LocalVrm"
      [] address = AddressRemoteVrm -> "RemoteVrm"
      [] address = AddressOptionString -> "OptionString"
      [] address = AddressBackgroundColor -> "BackgroundColor"
      [] address = AddressWindowAttribute -> "WindowAttribute"
      [] address = AddressLoadedSettingPath -> "LoadedSettingPath"
      [] OTHER -> "DeviceTransform"

\* The record m holds the wire values v, field by field in the order of the signature.
HoldsValues(m, v) ==
    CASE m.type = "Available" ->
            /\ m.Loaded = (v[1] = 1)
            /\ m.CalibrationState = IF Len(v) >= 3 THEN Ptr(v[2]) ELSE Nil
            /\ m.CalibrationMode = IF Len(v) >= 3 THEN Ptr(v[3]) ELSE Nil
            /\ m.TrackingStatus = IF Len(v) = 4 THEN Ptr(v[4] = 1) ELSE Nil
      [] m.type = "RelativeTime" -> m.Time = v[1]
      [] m.type = "RootTransform" ->
            /\ m.Name = v[1] /\ m.Position = Vec3At(v, 2) /\ m.Quaternion = Vec4At(v, 5)
            /\ m.Scale = IF Len(v) = 14 THEN Ptr(Vec3At(v, 9)) ELSE Nil
            /\ m.Offset = IF Len(v) = 14 THEN Ptr(Vec3At(v, 12)) ELSE Nil
      [] m.type = "BoneTransform" ->
            m.Name = v[1] /\ m.Position = Vec3At(v, 2) /\ m.Quaternion = Vec4At(v, 5)
      [] m.type = "BlendShapeProxyValue" -> m.Name = v[1] /\ m.Value = v[2]
      [] m.type = "BlendShapeProxyApply" -> v = <<>>
      [] m.type = "CameraTransform" ->
            /\ m.Name = v[1] /\ m.Position = Vec3At(v, 2) /\ m.Quaternion = Vec4At(v, 5)
            /\ m.FOV = v[9]
      [] m.type = "ControllerInput" ->
            /\ m.Active = v[1] /\ m.Name = v[2]
            /\ m.IsLeft = (v[3] = 1) /\ m.IsTouch = (v[4] = 1) /\ m.IsAxis = (v[5] = 1)
            /\ m.Axis = Vec3At(v, 6)
      [] m.type = "KeyboardInput" ->
            m.Active = (v[1] = 1) /\ m.Name = v[2] /\ m.KeyCode = v[3]
      [] m.type = "MidiNoteInput" ->
            m.Active = (v[1] = 1) /\ m.Channel = v[2] /\ m.Note = v[3] /\ m.Velocity = v[4]
      [] m.type = "MidiCCValueInput" -> m.Knob = v[1] /\ m.Value = v[2]
      [] m.type = "MidiCCButtonInput" -> m.Knob = v[1] /\ m.Active = (v[2] = 1)
      [] m.type = "DeviceTransform" ->
            m.Serial = v[1] /\ m.Position = Vec3At(v, 2) /\ m.Quaternion = Vec4At(v, 5)
      [] m.type = "ReceiveEnable" ->
            /\ m.Enable = (v[1] = 1) /\ m.Port = v[2]
            /\ m.IPAddress = IF Len(v) = 3 THEN Ptr(v[3]) ELSE Nil
      [] m.type = "DirectionalLight" ->
            /\ m.Name = v[1] /\ m.Position = Vec3At(v, 2) /\ m.Quaternion = Vec4At(v, 5)
            /\ m.Color = Vec4At(v, 9)
      [] m.type = "LocalVrm" ->
            /\ m.Path = v[1] /\ m.Title = v[2]
            /\ m.Hash = IF Len(v) = 3 THEN Ptr(v[3]) ELSE Nil
      [] m.type = "RemoteVrm" -> m.Service = v[1] /\ m.JSON = v[2]
      [] m.type = "OptionString" -> m.Option = v[1]
      [] m.type = "BackgroundColor" -> m.Color = Vec4At(v, 1)
      [] m.type = "WindowAttribute" ->
            /\ m.IsTopMost = (v[1] = 1) /\ m.IsTransparent = (v[2] = 1)
            /\ m.WindowClickThrough = (v[3] = 1) /\ m.HideBorder = (v[4] = 1)
      [] m.type = "LoadedSettingPath" -> m.Path = v[1]

\* The enumerated fields of the payload hold one of their variants.
EnumsInRange ==
    /\ (TheAddress = AddressAvailable /\ Len(TheTags) >= 3) =>
          RawAt(4) \in 0..3 /\ RawAt(8) \in 0..2
    /\ TheAddress = AddressControllerInput => RawAt(0) \in 0..2

\* A payload that holds exactly the fields of the supplied signature.
Matching == RightTags /\ Fits(TheTags, ThePayload) /\ EnumsInRange

(***************************************************************************)
(* C25: for every known address and every accepted signature, a payload    *)
(* that holds exactly the fields of the signature (enumerated fields in    *)
(* range) decodes without error to the record kind of the address, and     *)
(* every field of the record is the value found at its place on the wire.  *)
(***************************************************************************)
C25_RoundTrip ==
    Matching =>
        /\ Decoded
        /\ parsed.message.type = RecordKind(TheAddress)
        /\ HoldsValues(parsed.message, WireValues(TheTags, ThePayload))

\* The 14-tag root transform with name "bcd" decoded with its scale and offset.
C25_Witness ==
    /\ Matching /\ Decoded
    /\ TheAddress = AddressRootTransform /\ Len(TheTags) = 14
    /\ parsed.message.Name = <<98, 99, 100>>
    /\ parsed.message.Offset = Ptr(Vec3At(WireValues(TheTags, ThePayload), 12))
    /\ parsed.message.Position.X = Float32frombits(1066192079)

\* Three messages a sender puts on the wire: one with an address that is not in the
\* table ("/") and two with addresses that are.
SentMessages ==
    {[address |-> <<MessageMarker>>, wire |-> Header(<<>>)],
     [address |-> AddressBlendShapeProxyApply,
      wire |-> VmcMessage(AddressBlendShapeProxyApply, <<>>, <<>>)],
     [address |-> AddressRelativeTime,
      wire |-> VmcMessage(AddressRelativeTime, <<TypeTagFloat>>, <<63, 140, 204, 205>>)]}

Wires(ms) == [k \in 1..Len(ms) |-> ms[k].wire]

\* Datagrams of one or two packets with the messages they carry, in wire order:
\* messages back to back, a bundle, a bundle and then a message, a message and then
\* a bundle.
Sendings ==
    {[datagram |-> Concat(Wires(ms)), messages |-> ms] :
        ms \in SeqsUpTo(SentMessages, 2) \ {<<>>}}
    \cup {[datagram |-> BundleOf(Wires(ms)), messages |-> ms] :
            ms \in SeqsUpTo(SentMessages, MaxElems)}
    \cup {[datagram |-> BundleOf(Wires(ms)) \o m.wire, messages |-> ms \o <<m>>] :
            ms \in SeqsUpTo(SentMessages, MaxElems), m \in SentMessages}
    \cup {[datagram |-> m.wire \o BundleOf(Wires(ms)), messages |-> <<m>> \o ms] :
            ms \in SeqsUpTo(SentMessages, MaxElems), m \in SentMessages}

KnownOf(ms) == SelectSeq(ms, LAMBDA m : m.address \in KnownAddresses)

\* Read returned because the connection or the UDPHandler failed.
ConnFailed ==
    /\ srv.err # NoErr
    /\ srv.err.wrap[1] \in {"failed to set read deadline on the connection",
                           "failed to read from the UDP connection"}

UDPHandlerFailed == \E k \in 1..Len(srv.delivered) : srv.delivered[k].err # NoErr

(***************************************************************************)
(* C26: when the connection and the UDPHandler do not fail, Read goes      *)
(* through the whole datagram without error and calls the UDPHandler once  *)
(* for every message with a known address, in wire order across packets    *)
(* and bundle elements; messages with unknown addresses are skipped.       *)
(***************************************************************************)
C26_SkipsUnknown ==
    \A s \in Sendings :
        (srv # Nil /\ pc = "ReadReturned" /\ input = s.datagram
            /\ ~ConnFailed /\ ~UDPHandlerFailed) =>
            /\ srv.err = NoErr
            /\ [k \in 1..Len(srv.delivered) |-> srv.delivered[k].message.Address]
                  = [k \in 1..Len(KnownOf(s.messages)) |-> KnownOf(s.messages)[k].address]

\* The bytes ReadPacket has consumed so far.
BytesConsumed == Len(input) - Len(buf)

\* How far the code at pc is from the return of its function.
Rank ==
    CASE pc = "ReadPacket" -> 6
      [] pc \in {"readMessage", "readBundle"} -> 5
      [] pc \in {"readMessageTypeTags", "readBundleTimeTag"} -> 4
      [] pc = "readMessageArguments" -> 3
      [] pc = "readBundleLoop" -> 1
      [] OTHER -> 0

\* The type tags the loop of readMessage has still to go through.
TagsLeft == IF pc = "readMessageArguments" THEN Len(msg.typeTags) - msg.idx ELSE 0

(***************************************************************************)
(* The variant of ReadPacket: the bytes left in the view first, then the   *)
(* place in the code, the type tags left and the readBundle calls waiting. *)
(***************************************************************************)
Variant == 2048 * Len(buf) + 256 * Rank + 16 * TagsLeft + Len(stack)

(***************************************************************************)
(* C27: ReadPacket terminates on every input.  Until it has returned or    *)
(* panicked it can take a step, and every step lowers a variant that is    *)
(* never negative and in which the bytes left weigh most; each iteration   *)
(* of the bundle loop hands ReadPacket a view at least 4 bytes shorter,    *)
(* the view never grows, and the recursion depth and the elements read by  *)
(* each waiting readBundle are bounded by the bytes consumed.              *)
(***************************************************************************)
C27_Terminates ==
    /\ [](~Ended => ENABLED Next)
    /\ [](Variant >= 0 /\ TagsLeft < 16 /\ Len(stack) < 16)
    /\ [][Variant' < Variant]_<<pc, buf, stack, msg, call>>
    /\ [][Len(buf') <= Len(buf)]_<<pc, buf>>
    /\ [][(pc = "readBundleLoop" /\ pc' = "ReadPacket") => Len(buf') + 4 <= Len(buf)]_<<pc, buf>>
    /\ [](Len(stack) <= BytesConsumed)
    /\ [](\A k \in 1..Len(stack) : 4 * Len(stack[k].contents) <= BytesConsumed)

\* A bundle in a bundle was read to its end: two readBundle calls deep.
C27_Witness ==
    /\ Succeeded
    /\ ret.packet.Bundle # Nil
    /\ Len(ret.packet.Bundle.Contents) >= 1
    /\ ret.packet.Bundle.Contents[1].Bundle # Nil
    /\ Len(ret.packet.Bundle.Contents[1].Bundle.Contents) >= 1

\* ParseMessage returned an InvalidBufferLengthError.
LengthRejected == Parsed /\ ~parsed.panic /\ Is(parsed.err, "InvalidBufferLengthError")

\* The same decoder with the same type tags rejects a payload of l zero bytes
\* at the same check: the same error with the same expected lengths.
SameCheckRejects(l) ==
    LET out == ParseTypeTags(TheAddress, EncString(<<TypeTagsMarker>> \o TheTags) \o Zeros(l))
    IN  /\ ~out.panic
        /\ Is(out.err, "InvalidBufferLengthError")
        /\ out.err.Expected = parsed.err.Expected
        /\ out.err.Length = l

(***************************************************************************)
(* C28: an InvalidBufferLengthError never reports a length that is among   *)
(* its expected lengths, and when the check is on the whole payload the    *)
(* expected lengths are exactly the payload lengths that pass that check.  *)
(***************************************************************************)
C28_ExpectedLengths ==
    LengthRejected =>
        /\ parsed.err.Length \notin ExpectedSet(parsed.err)
        /\ parsed.err.Length = Len(ThePayload) =>
              \A l \in 0..(Len(ThePayload) + 8) :
                  SameCheckRejects(l) <=> l \notin ExpectedSet(parsed.err)

(***************************************************************************)
(* C29: the outcome of ParseMessage is decided in a fixed order.  When the *)
(* address cannot be read, it is that failure; else when the filter list   *)
(* is not empty and lacks the address, it is ErrFiltered, whatever the     *)
(* table and the type tags are; else when the type tags cannot be read, it *)
(* is that failure, whatever the table is; else when the address is not in *)
(* the table, it is ErrUnknownAddress; else it is what the decoder of the  *)
(* address returns for the type tags and the payload.                      *)
(***************************************************************************)
C29_Precedence ==
    Parsed =>
        /\ ~HasAddress => parsed = StringFailure(getString(input))
        /\ (HasAddress /\ ~Passes) => parsed = Failure(Err("ErrFiltered"))
        /\ (Passes /\ ~HasTypeTags) =>
               parsed = StringFailure(getTypeTags(getString(input).rest))
        /\ (Passes /\ HasTypeTags /\ Unknown) => parsed = Failure(Err("ErrUnknownAddress"))
        /\ (Passes /\ HasTypeTags /\ ~Unknown) =>
               /\ parsed = Decode(Decoder(TheAddress), TheTags, ThePayload)
               /\ ~Is(parsed.err, "ErrFiltered")
               /\ ~Is(parsed.err, "ErrUnknownAddress")

\* An address that is neither in the filter list nor in the table, before type
\* tags that cannot be read, was filtered.
C29_Witness ==
    /\ Parsed /\ HasAddress
    /\ addressFilters # <<>> /\ ~Listed
    /\ Unknown
    /\ Bad(getTypeTags(getString(input).rest))
    /\ parsed = Failure(Err("ErrFiltered"))

\* An address named by the filter list but not in the table, with type tags
\* that can be read, was answered with ErrUnknownAddress.
C29_ListedUnknown ==
    /\ Parsed /\ HasAddress
    /\ addressFilters # <<>> /\ Listed
    /\ Unknown /\ HasTypeTags
    /\ parsed = Failure(Err("ErrUnknownAddress"))

(***************************************************************************)
(* C30: no decoder reads a fixed slice data[a:b] beyond the payload: for   *)
(* every address, type-tag string and payload, ParseMessage never ends in  *)
(* the panic of a slice expression of a fixed-offset read, and a payload   *)
(* too short for the fields is answered with an error by the length check  *)
(* in front of the reads.  (A panic can still come from getString.)        *)
(***************************************************************************)
C30_ReadsInBounds ==
    Parsed =>
        /\ parsed # OutOfRange
        /\ parsed.panic => parsed = Crash

\* A payload one byte short of the two fields of MidiCCValueInput was
\* rejected by the length check, before data[4:8] was read.
C30_Witness ==
    /\ LengthRejected
    /\ TheAddress = AddressMidiCCValueInput
    /\ TheTags = <<TypeTagInt, TypeTagFloat>>
    /\ Len(ThePayload) = 7
    /\ parsed.err.Expected = <<8>>

====
